---- MODULE Spec2Model ----
(***************************************************************************)
(* Header validation (crates/ethereum/consensus/src/lib.rs), sender        *)
(* recovery of impersonated transactions (crates/primitives-traits/src/    *)
(* transaction/signed.rs) and the per-block execution strategy             *)
(* (crates/ethereum/evm/src/execute.rs) of nanoreth.                       *)
(*                                                                         *)
(* The specifications share the variables:                                 *)
(*   Spec        the execution strategy (execute_transaction)              *)
(*   SpecHeader  the header validators, applied to drawn headers           *)
(*   SpecSigned  is_impersonated_tx / recover_signer_unchecked             *)
(*   SpecChain   validate_header_against_parent, applied to the headers    *)
(*               offered on top of a growing chain                         *)
(*   SpecPre     apply_pre_execution_changes on the state a block starts   *)
(*               from                                                      *)
(*   SpecHistory blocks executed one after another on the same state       *)
(*   SpecPost    execute_transaction and apply_post_execution_changes      *)
(*   SpecValidatePost  validate_block_post_execution, applied to drawn     *)
(*               blocks and execution results                              *)
(*   SpecRuns    a block executed twice on content-identical states        *)
(*   SpecRepeat  the header validators applied twice to the same header    *)
(*   SpecRpc     the RPC block conversions (crates/rpc/rpc-types-compat/   *)
(*               src/block.rs)                                             *)
(* Each keeps the variables of the other parts at their idle values.       *)
(***************************************************************************)
EXTENDS Integers, Naturals, Sequences, FiniteSets, TLC

VARIABLES
    \* --- header validation ---
    header,             \* the header under validation
    parent,             \* its parent header
    chain_spec,         \* the hard-fork schedule the consensus object holds
    present_timestamp,  \* what SystemTime::now() returns, in seconds
    result,             \* the validator applied and what it returned
    chain,              \* the headers accepted so far, each against its predecessor
    \* --- signed transaction ---
    signature,          \* the signature (r, s, v) of the transaction
    gas_price,          \* Transaction::gas_price(), an Option<u128>
    signer,             \* what the recovery function returned
    \* --- execution strategy ---
    input,              \* EthBlockExecutionInput
    db,                 \* the state behind self.evm.db_mut(): state-clear flag, system contracts
    gas_used,           \* EthExecutionStrategy::gas_used
    receipts,           \* EthExecutionStrategy::receipts
    evm_gas_total,      \* history: EVM-reported gas of the non-impersonated transactions executed
    last,               \* history: the last execute_transaction call and its outcome
    output,             \* the BlockExecutionResult apply_post_execution_changes returned
    pc,                 \* "pre" before apply_pre_execution_changes, "execute" while
                        \* transactions can be executed, "done" once
                        \* apply_post_execution_changes has returned Ok, "failed" after
                        \* an error of apply_pre_execution_changes or of
                        \* apply_post_execution_changes, "panicked" after a panic
    \* --- histories ---
    evaluations,        \* history: the earlier evaluations of a header validator
    calls,              \* history: the calls made on the strategy in this run, with
                        \* what the environment answered and what they returned
    first_run,          \* history: an earlier run of the same block, once it has ended
    \* --- RPC block conversion ---
    env_var,            \* the environment variable HL_NODE_COMPLIANT
    block,              \* the transactions of the block handed to the conversion
    response            \* the conversion applied and what it returned

vars == <<header, parent, chain_spec, present_timestamp, result, chain,
          signature, gas_price, signer,
          input, db, gas_used, receipts, evm_gas_total, last, output, pc,
          evaluations, calls, first_run, env_var, block, response>>

headerVars == <<header, parent, chain_spec, present_timestamp, result, chain>>
signedVars == <<signature, gas_price, signer>>
execVars   == <<input, db, gas_used, receipts, evm_gas_total, last, output, pc>>
recordVars == <<evaluations, calls, first_run>>
rpcVars    == <<env_var, block, response>>

----------------------------------------------------------------------------
(* Option<T> and Result<(), E> *)

None == [some |-> FALSE]
Some(x) == [some |-> TRUE, val |-> x]
is_some(o) == o.some
is_none(o) == ~o.some

Ok == [tag |-> "Ok"]

----------------------------------------------------------------------------
(* Program constants *)

MINIMUM_GAS_LIMIT == 5000
GAS_LIMIT_BOUND_DIVISOR == 1024
ALLOWED_FUTURE_BLOCK_TIME_SECONDS == 15
MAXIMUM_EXTRA_DATA_SIZE == 32

\* The fee-market and blob-market parameters (EIP-1559, EIP-4844, EIP-7691).
ELASTICITY_MULTIPLIER == 2
BASE_FEE_MAX_CHANGE_DENOMINATOR == 8
DATA_GAS_PER_BLOB == 131072
TARGET_BLOBS_PER_BLOCK_DENCUN == 3
TARGET_BLOBS_PER_BLOCK_ELECTRA == 6
EMPTY_OMMER_ROOT_HASH == "0x1dcc4de8dec75d7aab85b567b6ccd41ad312451b948a7413f0a142fd40d49347"
OTHER_OMMERS_HASH == "0x00000000000000000000000000000000000000000000000000000000000000aa"

\* B256::ZERO, and proofs::calculate_withdrawals_root(&[]) (the empty trie root).
B256_ZERO == "0x0000000000000000000000000000000000000000000000000000000000000000"
EMPTY_WITHDRAWALS_ROOT == "0x56e81f171bcc55a6ff8345e692c0f86e5b48e01b996cadc001622fb5e363b421"
OTHER_ROOT == "0x00000000000000000000000000000000000000000000000000000000000000bb"

----------------------------------------------------------------------------
(* Header validation: inputs *)

\* The block at which the modelled chain specs activate Paris by block number.
ParisBlock == 2

\* Header::default(): the header the tests of lib.rs build on
\* (header_with_gas_limit sets gas_limit, ..Default::default()).
\* extra_data is carried by its length, the only thing the size rule reads.
\* A SealedHeader carries its cached hash next to the header fields
\* (hash); B256::default() is the zero hash.
DefaultHeader ==
    [number |-> 0, gas_limit |-> 0, timestamp |-> 0, difficulty |-> 0,
     nonce |-> Some(0), ommers_hash |-> EMPTY_OMMER_ROOT_HASH, extra_data_len |-> 0,
     gas_used |-> 0, base_fee_per_gas |-> None, withdrawals_root |-> None,
     blob_gas_used |-> None, excess_blob_gas |-> None,
     parent_beacon_block_root |-> None, requests_hash |-> None,
     parent_hash |-> B256_ZERO, hash |-> B256_ZERO,
     receipts_root |-> <<"receipts_root", <<>>>>, logs_bloom |-> {}]

\* Gas limits of parents: the tests' GAS_LIMIT_BOUND_DIVISOR * 10 and the minimum.
ParentGasLimits == {MINIMUM_GAS_LIMIT, GAS_LIMIT_BOUND_DIVISOR * 10}

\* Gas limits of children around every parent: equal, inside the bound,
\* on the bound, one past the bound, and around the minimum.
ChildGasLimits ==
    {MINIMUM_GAS_LIMIT - 1, MINIMUM_GAS_LIMIT, MINIMUM_GAS_LIMIT + 1}
    \cup UNION {{p, p + 5, p - 5,
                 p + p \div GAS_LIMIT_BOUND_DIVISOR, p + p \div GAS_LIMIT_BOUND_DIVISOR + 1,
                 p - p \div GAS_LIMIT_BOUND_DIVISOR, p - p \div GAS_LIMIT_BOUND_DIVISOR - 1}
                : p \in ParentGasLimits}

\* header_with_gas_limit (lib.rs tests)
header_with_gas_limit(g) == [DefaultHeader EXCEPT !.gas_limit = g]

GasLimitHeaders == {header_with_gas_limit(g) : g \in ChildGasLimits}
GasLimitParents == {header_with_gas_limit(g) : g \in ParentGasLimits}

\* The clock readings and header timestamps around the future-block tolerance.
Clocks == {100, 200}
Timestamps == {0, 100 + ALLOWED_FUTURE_BLOCK_TIME_SECONDS, 100 + ALLOWED_FUTURE_BLOCK_TIME_SECONDS + 1,
               200 + ALLOWED_FUTURE_BLOCK_TIME_SECONDS + 1}

\* The total difficulty handed to validate_header_with_total_difficulty:
\* none accumulated, and more than any terminal total difficulty.
TotalDifficulties == {0, 58750}

\* Headers for validate_header_with_total_difficulty: before, at and after
\* the Paris block, every combination of the fields the function reads.
MergeHeaders ==
    {[DefaultHeader EXCEPT !.number = n, !.timestamp = t, !.difficulty = d, !.nonce = nc,
                           !.ommers_hash = o, !.extra_data_len = x] :
        n \in {ParisBlock - 1, ParisBlock, ParisBlock + 1}, t \in Timestamps, d \in {0, 1},
        nc \in {None, Some(0), Some(1)},
        o \in {EMPTY_OMMER_ROOT_HASH, OTHER_OMMERS_HASH},
        x \in {MAXIMUM_EXTRA_DATA_SIZE, MAXIMUM_EXTRA_DATA_SIZE + 1}}

\* Chain specs: Paris activated at a block number, or a schedule from which
\* the activation cannot be decided by block number (a TTD-only condition).
\* A chain spec is carried by its fork schedule: dao, spurious_dragon,
\* london and paris by block number, shanghai, cancun and prague by
\* timestamp; None is a fork that is not scheduled.
NoForks ==
    [dao |-> None, spurious_dragon |-> None, paris |-> None, london |-> None,
     shanghai |-> None, cancun |-> None, prague |-> None]

ChainSpecs == {[NoForks EXCEPT !.paris = Some(ParisBlock)], NoForks}

\* The timestamps at which the staggered schedule activates the three
\* timestamp forks.
ShanghaiTime == 10
CancunTime == 20
PragueTime == 30

\* ChainSpecBuilder::mainnet().shanghai_activated(): every fork up to
\* Shanghai active from genesis, the later ones not scheduled.
shanghai_activated ==
    [dao |-> None, spurious_dragon |-> Some(0), paris |-> Some(0), london |-> Some(0),
     shanghai |-> Some(0), cancun |-> None, prague |-> None]

\* A schedule that activates Shanghai, Cancun and Prague one after another.
StaggeredForks ==
    [shanghai_activated EXCEPT !.shanghai = Some(ShanghaiTime), !.cancun = Some(CancunTime),
                               !.prague = Some(PragueTime)]

\* ChainSpecBuilder cancun_activated() / prague_activated(): the fee
\* market and the blob market active from genesis.
cancun_activated == [shanghai_activated EXCEPT !.cancun = Some(0)]
prague_activated == [shanghai_activated EXCEPT !.cancun = Some(0), !.prague = Some(0)]

ForkChainSpecs == {shanghai_activated, StaggeredForks, NoForks}

\* Header timestamps on both sides of every activation.
ForkTimestamps ==
    {ShanghaiTime - 1, ShanghaiTime, CancunTime - 1, CancunTime, PragueTime - 1, PragueTime}

\* (gas_limit, gas_used) pairs: Header::default(), below and at the
\* minimum, a full block, and gas used beyond the limit.
GasPairs ==
    {<<0, 0>>, <<MINIMUM_GAS_LIMIT - 1, 0>>, <<MINIMUM_GAS_LIMIT, MINIMUM_GAS_LIMIT>>,
     <<MINIMUM_GAS_LIMIT, MINIMUM_GAS_LIMIT + 1>>}

\* Headers for validate_header: every combination of presence of the
\* fork-dependent fields (blob gas values are drawn well-formed: 0).
StandaloneHeaders ==
    {[DefaultHeader EXCEPT !.gas_limit = g[1], !.gas_used = g[2], !.timestamp = t,
                           !.base_fee_per_gas = bf, !.withdrawals_root = wr,
                           !.blob_gas_used = bgu, !.excess_blob_gas = ebg,
                           !.parent_beacon_block_root = pbbr, !.requests_hash = rh] :
        g \in GasPairs, t \in ForkTimestamps, bf \in {None, Some(1337)},
        wr \in {None, Some(EMPTY_WITHDRAWALS_ROOT), Some(OTHER_ROOT)},
        bgu \in {None, Some(0)}, ebg \in {None, Some(0)},
        pbbr \in {None, Some(B256_ZERO)}, rh \in {None, Some(OTHER_ROOT)}}

----------------------------------------------------------------------------
(* Header validation: the functions *)

\* EthereumHardforks::is_paris_active_at_block -> Option<bool>
is_paris_active_at_block(cs, number) ==
    IF is_some(cs.paris) THEN Some(number >= cs.paris.val) ELSE None

\* reth_consensus_common::validation::validate_header_extra_data
validate_header_extra_data(h) ==
    IF h.extra_data_len > MAXIMUM_EXTRA_DATA_SIZE
    THEN [tag |-> "ExtraDataExceedsMax", len |-> h.extra_data_len]
    ELSE Ok

\* EthereumHardforks::is_london_active_at_block
is_london_active_at_block(cs, number) == is_some(cs.london) /\ number >= cs.london.val

\* EthereumHardforks::is_shanghai_active_at_timestamp
is_shanghai_active_at_timestamp(cs, timestamp) ==
    is_some(cs.shanghai) /\ timestamp >= cs.shanghai.val

\* EthereumHardforks::is_cancun_active_at_timestamp
is_cancun_active_at_timestamp(cs, timestamp) ==
    is_some(cs.cancun) /\ timestamp >= cs.cancun.val

\* EthereumHardforks::is_prague_active_at_timestamp
is_prague_active_at_timestamp(cs, timestamp) ==
    is_some(cs.prague) /\ timestamp >= cs.prague.val

\* reth_consensus_common::validation::validate_header_gas: the gas used
\* may not exceed the gas limit.  The minimum gas limit is not part of it:
\* the test shanghai_block_zero_withdrawals validates a header with the
\* gas limit 0 of Header::default().
validate_header_gas(h) ==
    IF h.gas_used > h.gas_limit
    THEN [tag |-> "HeaderGasUsedExceedsGasLimit", gas_used |-> h.gas_used, gas_limit |-> h.gas_limit]
    ELSE Ok

\* reth_consensus_common::validation::validate_header_base_fee
validate_header_base_fee(h, cs) ==
    IF is_london_active_at_block(cs, h.number) /\ is_none(h.base_fee_per_gas)
    THEN [tag |-> "BaseFeeMissing"]
    ELSE Ok

\* reth_consensus_common::validation::validate_4844_header_standalone:
\* the three fields are required.
validate_4844_header_standalone(h) ==
    IF is_none(h.blob_gas_used) THEN [tag |-> "BlobGasUsedMissing"]
    ELSE IF is_none(h.excess_blob_gas) THEN [tag |-> "ExcessBlobGasMissing"]
    ELSE IF is_none(h.parent_beacon_block_root) THEN [tag |-> "ParentBeaconBlockRootMissing"]
    ELSE Ok

\* The gas-limit rule with the increase/decrease bound of upstream reth
\* checked before the minimum.
validate_against_parent_gas_limit_bound_first(h, p) ==
    IF h.gas_limit > p.gas_limit /\ h.gas_limit - p.gas_limit >= p.gas_limit \div GAS_LIMIT_BOUND_DIVISOR
    THEN [tag |-> "GasLimitInvalidIncrease", parent_gas_limit |-> p.gas_limit,
          child_gas_limit |-> h.gas_limit]
    ELSE IF h.gas_limit < p.gas_limit /\ p.gas_limit - h.gas_limit >= p.gas_limit \div GAS_LIMIT_BOUND_DIVISOR
    THEN [tag |-> "GasLimitInvalidDecrease", parent_gas_limit |-> p.gas_limit,
          child_gas_limit |-> h.gas_limit]
    ELSE IF h.gas_limit < MINIMUM_GAS_LIMIT
    THEN [tag |-> "GasLimitInvalidMinimum", child_gas_limit |-> h.gas_limit]
    ELSE Ok

\* EthBeaconConsensus::validate_against_parent_gas_limit: the parent is
\* not read (the parameter is _parent); only the minimum is checked.
validate_against_parent_gas_limit(h, p) ==
    IF h.gas_limit < MINIMUM_GAS_LIMIT
    THEN [tag |-> "GasLimitInvalidMinimum", child_gas_limit |-> h.gas_limit]
    ELSE Ok

\* The nonce rule as the prose states it ("nonce, if present, must be
\* zero"): an absent nonce is accepted.
validate_header_with_total_difficulty_nonce_if_present(cs, h, total_difficulty, now) ==
    LET paris == is_paris_active_at_block(cs, h.number)
        is_post_merge == is_some(paris) /\ paris.val
    IN  IF is_post_merge
        THEN IF h.difficulty # 0 THEN [tag |-> "TheMergeDifficultyIsNotZero"]
             ELSE IF is_some(h.nonce) /\ h.nonce.val # 0 THEN [tag |-> "TheMergeNonceIsNotZero"]
             ELSE IF h.ommers_hash # EMPTY_OMMER_ROOT_HASH THEN [tag |-> "TheMergeOmmerRootIsNotEmpty"]
             ELSE validate_header_extra_data(h)
        ELSE IF h.timestamp > now + ALLOWED_FUTURE_BLOCK_TIME_SECONDS
             THEN [tag |-> "TimestampIsInFuture", timestamp |-> h.timestamp, present_timestamp |-> now]
             ELSE validate_header_extra_data(h)

\* validate_header with the minimum gas limit checked first.
validate_header_minimum_gas_limit(cs, h) ==
    LET gas == validate_header_gas(h)
        base_fee == validate_header_base_fee(h, cs)
        shanghai == is_shanghai_active_at_timestamp(cs, h.timestamp)
        cancun == is_cancun_active_at_timestamp(cs, h.timestamp)
        prague == is_prague_active_at_timestamp(cs, h.timestamp)
        blob == validate_4844_header_standalone(h)
    IN  IF h.gas_limit < MINIMUM_GAS_LIMIT
        THEN [tag |-> "GasLimitInvalidMinimum", child_gas_limit |-> h.gas_limit]
        ELSE IF gas # Ok THEN gas
        ELSE IF base_fee # Ok THEN base_fee
        ELSE IF shanghai /\ is_none(h.withdrawals_root) THEN [tag |-> "WithdrawalsRootMissing"]
        ELSE IF ~shanghai /\ is_some(h.withdrawals_root) THEN [tag |-> "WithdrawalsRootUnexpected"]
        ELSE IF cancun /\ blob # Ok THEN blob
        ELSE IF ~cancun /\ is_some(h.blob_gas_used) THEN [tag |-> "BlobGasUsedUnexpected"]
        ELSE IF ~cancun /\ is_some(h.excess_blob_gas) THEN [tag |-> "ExcessBlobGasUnexpected"]
        ELSE IF ~cancun /\ is_some(h.parent_beacon_block_root) THEN [tag |-> "ParentBeaconBlockRootUnexpected"]
        ELSE IF prague /\ is_none(h.requests_hash) THEN [tag |-> "RequestsHashMissing"]
        ELSE IF ~prague /\ is_some(h.requests_hash) THEN [tag |-> "RequestsHashUnexpected"]
        ELSE Ok

\* validate_header without the withdrawals-root rule.
validate_header_withdrawals_root_unchecked(cs, h) ==
    LET gas == validate_header_gas(h)
        base_fee == validate_header_base_fee(h, cs)
        shanghai == is_shanghai_active_at_timestamp(cs, h.timestamp)
        cancun == is_cancun_active_at_timestamp(cs, h.timestamp)
        prague == is_prague_active_at_timestamp(cs, h.timestamp)
        blob == validate_4844_header_standalone(h)
    IN  IF gas # Ok THEN gas
        ELSE IF base_fee # Ok THEN base_fee
        ELSE IF cancun /\ blob # Ok THEN blob
        ELSE IF ~cancun /\ is_some(h.blob_gas_used) THEN [tag |-> "BlobGasUsedUnexpected"]
        ELSE IF ~cancun /\ is_some(h.excess_blob_gas) THEN [tag |-> "ExcessBlobGasUnexpected"]
        ELSE IF ~cancun /\ is_some(h.parent_beacon_block_root) THEN [tag |-> "ParentBeaconBlockRootUnexpected"]
        ELSE IF prague /\ is_none(h.requests_hash) THEN [tag |-> "RequestsHashMissing"]
        ELSE IF ~prague /\ is_some(h.requests_hash) THEN [tag |-> "RequestsHashUnexpected"]
        ELSE Ok

\* validate_header without the parent-beacon-block-root rule before Cancun.
validate_header_beacon_root_unchecked(cs, h) ==
    LET gas == validate_header_gas(h)
        base_fee == validate_header_base_fee(h, cs)
        shanghai == is_shanghai_active_at_timestamp(cs, h.timestamp)
        cancun == is_cancun_active_at_timestamp(cs, h.timestamp)
        prague == is_prague_active_at_timestamp(cs, h.timestamp)
        blob == validate_4844_header_standalone(h)
    IN  IF gas # Ok THEN gas
        ELSE IF base_fee # Ok THEN base_fee
        ELSE IF shanghai /\ is_none(h.withdrawals_root) THEN [tag |-> "WithdrawalsRootMissing"]
        ELSE IF ~shanghai /\ is_some(h.withdrawals_root) THEN [tag |-> "WithdrawalsRootUnexpected"]
        ELSE IF cancun /\ blob # Ok THEN blob
        ELSE IF ~cancun /\ is_some(h.blob_gas_used) THEN [tag |-> "BlobGasUsedUnexpected"]
        ELSE IF ~cancun /\ is_some(h.excess_blob_gas) THEN [tag |-> "ExcessBlobGasUnexpected"]
        ELSE IF prague /\ is_none(h.requests_hash) THEN [tag |-> "RequestsHashMissing"]
        ELSE IF ~prague /\ is_some(h.requests_hash) THEN [tag |-> "RequestsHashUnexpected"]
        ELSE Ok

\* validate_header without the requests-hash rule.
validate_header_requests_hash_unchecked(cs, h) ==
    LET gas == validate_header_gas(h)
        base_fee == validate_header_base_fee(h, cs)
        shanghai == is_shanghai_active_at_timestamp(cs, h.timestamp)
        cancun == is_cancun_active_at_timestamp(cs, h.timestamp)
        prague == is_prague_active_at_timestamp(cs, h.timestamp)
        blob == validate_4844_header_standalone(h)
    IN  IF gas # Ok THEN gas
        ELSE IF base_fee # Ok THEN base_fee
        ELSE IF shanghai /\ is_none(h.withdrawals_root) THEN [tag |-> "WithdrawalsRootMissing"]
        ELSE IF ~shanghai /\ is_some(h.withdrawals_root) THEN [tag |-> "WithdrawalsRootUnexpected"]
        ELSE IF cancun /\ blob # Ok THEN blob
        ELSE IF ~cancun /\ is_some(h.blob_gas_used) THEN [tag |-> "BlobGasUsedUnexpected"]
        ELSE IF ~cancun /\ is_some(h.excess_blob_gas) THEN [tag |-> "ExcessBlobGasUnexpected"]
        ELSE IF ~cancun /\ is_some(h.parent_beacon_block_root) THEN [tag |-> "ParentBeaconBlockRootUnexpected"]
        ELSE Ok

\* validate_header with the requests-hash rule checked before the others.
validate_header_requests_hash_first(cs, h) ==
    LET gas == validate_header_gas(h)
        base_fee == validate_header_base_fee(h, cs)
        shanghai == is_shanghai_active_at_timestamp(cs, h.timestamp)
        cancun == is_cancun_active_at_timestamp(cs, h.timestamp)
        prague == is_prague_active_at_timestamp(cs, h.timestamp)
        blob == validate_4844_header_standalone(h)
    IN  IF prague /\ is_none(h.requests_hash) THEN [tag |-> "RequestsHashMissing"]
        ELSE IF ~prague /\ is_some(h.requests_hash) THEN [tag |-> "RequestsHashUnexpected"]
        ELSE IF gas # Ok THEN gas
        ELSE IF base_fee # Ok THEN base_fee
        ELSE IF shanghai /\ is_none(h.withdrawals_root) THEN [tag |-> "WithdrawalsRootMissing"]
        ELSE IF ~shanghai /\ is_some(h.withdrawals_root) THEN [tag |-> "WithdrawalsRootUnexpected"]
        ELSE IF cancun /\ blob # Ok THEN blob
        ELSE IF ~cancun /\ is_some(h.blob_gas_used) THEN [tag |-> "BlobGasUsedUnexpected"]
        ELSE IF ~cancun /\ is_some(h.excess_blob_gas) THEN [tag |-> "ExcessBlobGasUnexpected"]
        ELSE IF ~cancun /\ is_some(h.parent_beacon_block_root) THEN [tag |-> "ParentBeaconBlockRootUnexpected"]
        ELSE Ok

\* HeaderValidator::validate_header.  Each ? and each return Err(..) of
\* the function is one branch, in the order of the source.
validate_header(cs, h) ==
    LET gas == validate_header_gas(h)
        base_fee == validate_header_base_fee(h, cs)
        shanghai == is_shanghai_active_at_timestamp(cs, h.timestamp)
        cancun == is_cancun_active_at_timestamp(cs, h.timestamp)
        prague == is_prague_active_at_timestamp(cs, h.timestamp)
        blob == validate_4844_header_standalone(h)
    IN  IF gas # Ok THEN gas
        ELSE IF base_fee # Ok THEN base_fee
        ELSE IF shanghai /\ is_none(h.withdrawals_root) THEN [tag |-> "WithdrawalsRootMissing"]
        ELSE IF ~shanghai /\ is_some(h.withdrawals_root) THEN [tag |-> "WithdrawalsRootUnexpected"]
        ELSE IF cancun /\ blob # Ok THEN blob
        ELSE IF ~cancun /\ is_some(h.blob_gas_used) THEN [tag |-> "BlobGasUsedUnexpected"]
        ELSE IF ~cancun /\ is_some(h.excess_blob_gas) THEN [tag |-> "ExcessBlobGasUnexpected"]
        ELSE IF ~cancun /\ is_some(h.parent_beacon_block_root) THEN [tag |-> "ParentBeaconBlockRootUnexpected"]
        ELSE IF prague /\ is_none(h.requests_hash) THEN [tag |-> "RequestsHashMissing"]
        ELSE IF ~prague /\ is_some(h.requests_hash) THEN [tag |-> "RequestsHashUnexpected"]
        ELSE Ok

\* reth_consensus_common::validation::validate_against_parent_hash_number;
\* p.hash is the sealed hash of the parent.
validate_against_parent_hash_number(h, p) ==
    IF p.number + 1 # h.number
    THEN [tag |-> "ParentBlockNumberMismatch", parent_block_number |-> p.number,
          block_number |-> h.number]
    ELSE IF p.hash # h.parent_hash
    THEN [tag |-> "ParentHashMismatch", got |-> h.parent_hash, expected |-> p.hash]
    ELSE Ok

\* reth_consensus_common::validation::validate_against_parent_timestamp
validate_against_parent_timestamp(h, p) ==
    IF h.timestamp <= p.timestamp
    THEN [tag |-> "TimestampIsInPast", parent_timestamp |-> p.timestamp, timestamp |-> h.timestamp]
    ELSE Ok

\* The fee-market formula (EIP-1559): the base fee of the block after a
\* block with the given gas used, gas limit and base fee.
calc_next_block_base_fee(used, limit, base_fee) ==
    LET gas_target == limit \div ELASTICITY_MULTIPLIER
        Max(a, b) == IF a >= b THEN a ELSE b
    IN  IF used = gas_target THEN base_fee
        ELSE IF used > gas_target
        THEN base_fee + Max(1, (base_fee * (used - gas_target))
                                   \div (gas_target * BASE_FEE_MAX_CHANGE_DENOMINATOR))
        ELSE Max(0, base_fee - (base_fee * (gas_target - used))
                                   \div (gas_target * BASE_FEE_MAX_CHANGE_DENOMINATOR))

\* reth_consensus_common::validation::validate_against_parent_eip1559_base_fee
validate_against_parent_eip1559_base_fee(h, p, cs) ==
    IF ~is_london_active_at_block(cs, h.number) THEN Ok
    ELSE IF is_none(h.base_fee_per_gas) \/ is_none(p.base_fee_per_gas)
    THEN [tag |-> "BaseFeeMissing"]
    ELSE LET expected == calc_next_block_base_fee(p.gas_used, p.gas_limit, p.base_fee_per_gas.val)
         IN  IF expected # h.base_fee_per_gas.val
             THEN [tag |-> "BaseFeeDiff", got |-> h.base_fee_per_gas.val, expected |-> expected]
             ELSE Ok

\* EthChainSpec::blob_params_at_timestamp: the blob parameters of the
\* latest blob fork active at the timestamp, if any.
blob_params_at_timestamp(cs, timestamp) ==
    IF is_prague_active_at_timestamp(cs, timestamp)
    THEN Some([target_blob_count |-> TARGET_BLOBS_PER_BLOCK_ELECTRA])
    ELSE IF is_cancun_active_at_timestamp(cs, timestamp)
    THEN Some([target_blob_count |-> TARGET_BLOBS_PER_BLOCK_DENCUN])
    ELSE None

\* BlobParams::next_block_excess_blob_gas
next_block_excess_blob_gas(bp, excess_blob_gas, blob_gas_used) ==
    LET target == bp.target_blob_count * DATA_GAS_PER_BLOB
    IN  IF excess_blob_gas + blob_gas_used > target
        THEN excess_blob_gas + blob_gas_used - target
        ELSE 0

\* reth_consensus_common::validation::validate_against_parent_4844
validate_against_parent_4844(h, p, bp) ==
    LET parent_blob_gas_used == IF is_some(p.blob_gas_used) THEN p.blob_gas_used.val ELSE 0
        parent_excess_blob_gas == IF is_some(p.excess_blob_gas) THEN p.excess_blob_gas.val ELSE 0
        expected == next_block_excess_blob_gas(bp, parent_excess_blob_gas, parent_blob_gas_used)
    IN  IF is_none(h.blob_gas_used) THEN [tag |-> "BlobGasUsedMissing"]
        ELSE IF is_none(h.excess_blob_gas) THEN [tag |-> "ExcessBlobGasMissing"]
        ELSE IF expected # h.excess_blob_gas.val
        THEN [tag |-> "ExcessBlobGasDiff", got |-> h.excess_blob_gas.val, expected |-> expected,
              parent_excess_blob_gas |-> parent_excess_blob_gas,
              parent_blob_gas_used |-> parent_blob_gas_used]
        ELSE Ok

\* validate_header_against_parent without the timestamp rule.
validate_header_against_parent_timestamp_unchecked(cs, h, p) ==
    LET hash_number == validate_against_parent_hash_number(h, p)
        gas_limit == validate_against_parent_gas_limit(h, p)
        base_fee == validate_against_parent_eip1559_base_fee(h, p, cs)
        blob_params == blob_params_at_timestamp(cs, h.timestamp)
        blob == validate_against_parent_4844(h, p, blob_params.val)
    IN  IF hash_number # Ok THEN hash_number
        ELSE IF gas_limit # Ok THEN gas_limit
        ELSE IF base_fee # Ok THEN base_fee
        ELSE IF is_some(blob_params) /\ blob # Ok THEN blob
        ELSE Ok

\* HeaderValidator::validate_header_against_parent: each ? is one branch,
\* in the order of the source.
validate_header_against_parent(cs, h, p) ==
    LET hash_number == validate_against_parent_hash_number(h, p)
        timestamp == validate_against_parent_timestamp(h, p)
        gas_limit == validate_against_parent_gas_limit(h, p)
        base_fee == validate_against_parent_eip1559_base_fee(h, p, cs)
        blob_params == blob_params_at_timestamp(cs, h.timestamp)
        blob == validate_against_parent_4844(h, p, blob_params.val)
    IN  IF hash_number # Ok THEN hash_number
        ELSE IF timestamp # Ok THEN timestamp
        ELSE IF gas_limit # Ok THEN gas_limit
        ELSE IF base_fee # Ok THEN base_fee
        ELSE IF is_some(blob_params) /\ blob # Ok THEN blob
        ELSE Ok

\* The post-transition rules without the ommers-hash check.
validate_header_with_total_difficulty_ommers_unchecked(cs, h, total_difficulty, now) ==
    LET paris == is_paris_active_at_block(cs, h.number)
        is_post_merge == is_some(paris) /\ paris.val
    IN  IF is_post_merge
        THEN IF h.difficulty # 0 THEN [tag |-> "TheMergeDifficultyIsNotZero"]
             ELSE IF ~(is_some(h.nonce) /\ h.nonce.val = 0) THEN [tag |-> "TheMergeNonceIsNotZero"]
             ELSE validate_header_extra_data(h)
        ELSE IF h.timestamp > now + ALLOWED_FUTURE_BLOCK_TIME_SECONDS
             THEN [tag |-> "TimestampIsInFuture", timestamp |-> h.timestamp, present_timestamp |-> now]
             ELSE validate_header_extra_data(h)

\* The pre-transition future-timestamp rule with >= in place of >.
validate_header_with_total_difficulty_tolerance_excluded(cs, h, total_difficulty, now) ==
    LET paris == is_paris_active_at_block(cs, h.number)
        is_post_merge == is_some(paris) /\ paris.val
    IN  IF is_post_merge
        THEN IF h.difficulty # 0 THEN [tag |-> "TheMergeDifficultyIsNotZero"]
             ELSE IF ~(is_some(h.nonce) /\ h.nonce.val = 0) THEN [tag |-> "TheMergeNonceIsNotZero"]
             ELSE IF h.ommers_hash # EMPTY_OMMER_ROOT_HASH THEN [tag |-> "TheMergeOmmerRootIsNotEmpty"]
             ELSE validate_header_extra_data(h)
        ELSE IF h.timestamp >= now + ALLOWED_FUTURE_BLOCK_TIME_SECONDS
             THEN [tag |-> "TimestampIsInFuture", timestamp |-> h.timestamp, present_timestamp |-> now]
             ELSE validate_header_extra_data(h)

\* The pre-transition future-timestamp error carrying the latest accepted
\* timestamp in place of the clock reading.
validate_header_with_total_difficulty_reports_limit(cs, h, total_difficulty, now) ==
    LET paris == is_paris_active_at_block(cs, h.number)
        is_post_merge == is_some(paris) /\ paris.val
    IN  IF is_post_merge
        THEN IF h.difficulty # 0 THEN [tag |-> "TheMergeDifficultyIsNotZero"]
             ELSE IF ~(is_some(h.nonce) /\ h.nonce.val = 0) THEN [tag |-> "TheMergeNonceIsNotZero"]
             ELSE IF h.ommers_hash # EMPTY_OMMER_ROOT_HASH THEN [tag |-> "TheMergeOmmerRootIsNotEmpty"]
             ELSE validate_header_extra_data(h)
        ELSE IF h.timestamp > now + ALLOWED_FUTURE_BLOCK_TIME_SECONDS
             THEN [tag |-> "TimestampIsInFuture", timestamp |-> h.timestamp,
                   present_timestamp |-> now + ALLOWED_FUTURE_BLOCK_TIME_SECONDS]
             ELSE validate_header_extra_data(h)

\* The branch taken from the total difficulty: post-merge once any
\* difficulty above the terminal one has accumulated.
validate_header_with_total_difficulty_by_total_difficulty(cs, h, total_difficulty, now) ==
    IF total_difficulty > 0
    THEN IF h.difficulty # 0 THEN [tag |-> "TheMergeDifficultyIsNotZero"]
         ELSE IF ~(is_some(h.nonce) /\ h.nonce.val = 0) THEN [tag |-> "TheMergeNonceIsNotZero"]
         ELSE IF h.ommers_hash # EMPTY_OMMER_ROOT_HASH THEN [tag |-> "TheMergeOmmerRootIsNotEmpty"]
         ELSE validate_header_extra_data(h)
    ELSE IF h.timestamp > now + ALLOWED_FUTURE_BLOCK_TIME_SECONDS
         THEN [tag |-> "TimestampIsInFuture", timestamp |-> h.timestamp, present_timestamp |-> now]
         ELSE validate_header_extra_data(h)

\* The future-timestamp check made before the branch, on both sides of the
\* transition.
validate_header_with_total_difficulty_clock_read_first(cs, h, total_difficulty, now) ==
    LET paris == is_paris_active_at_block(cs, h.number)
        is_post_merge == is_some(paris) /\ paris.val
    IN  IF h.timestamp > now + ALLOWED_FUTURE_BLOCK_TIME_SECONDS
        THEN [tag |-> "TimestampIsInFuture", timestamp |-> h.timestamp, present_timestamp |-> now]
        ELSE IF is_post_merge
        THEN IF h.difficulty # 0 THEN [tag |-> "TheMergeDifficultyIsNotZero"]
             ELSE IF ~(is_some(h.nonce) /\ h.nonce.val = 0) THEN [tag |-> "TheMergeNonceIsNotZero"]
             ELSE IF h.ommers_hash # EMPTY_OMMER_ROOT_HASH THEN [tag |-> "TheMergeOmmerRootIsNotEmpty"]
             ELSE validate_header_extra_data(h)
        ELSE validate_header_extra_data(h)

\* HeaderValidator::validate_header_with_total_difficulty; the
\* _total_difficulty argument is not read.
validate_header_with_total_difficulty(cs, h, total_difficulty, now) ==
    LET paris == is_paris_active_at_block(cs, h.number)
        is_post_merge == is_some(paris) /\ paris.val
    IN  IF is_post_merge
        THEN IF h.difficulty # 0 THEN [tag |-> "TheMergeDifficultyIsNotZero"]
             ELSE IF ~(is_some(h.nonce) /\ h.nonce.val = 0) THEN [tag |-> "TheMergeNonceIsNotZero"]
             ELSE IF h.ommers_hash # EMPTY_OMMER_ROOT_HASH THEN [tag |-> "TheMergeOmmerRootIsNotEmpty"]
             ELSE validate_header_extra_data(h)
        ELSE IF h.timestamp > now + ALLOWED_FUTURE_BLOCK_TIME_SECONDS
             THEN [tag |-> "TimestampIsInFuture", timestamp |-> h.timestamp, present_timestamp |-> now]
             ELSE validate_header_extra_data(h)

----------------------------------------------------------------------------
(* Idle values of the three parts *)

NoResult == [op |-> "none"]

HeaderIdle ==
    /\ header = DefaultHeader
    /\ parent = DefaultHeader
    /\ chain_spec = NoForks
    /\ present_timestamp = 0
    /\ result = NoResult
    /\ chain = <<>>

\* nothing recorded
RecordIdle ==
    /\ evaluations = <<>>
    /\ calls = <<>>
    /\ first_run = None

\* no block handed to the RPC conversions
RpcIdle ==
    /\ env_var = [set |-> FALSE]
    /\ block = <<>>
    /\ response = [Hashes |-> [tag |-> "NotCalled"], Full |-> [tag |-> "NotCalled"]]

----------------------------------------------------------------------------
(* Signed transactions: U256 / U160 / Address                              *)
(*                                                                         *)
(* A U256 is 8 chunks of 32 bits, a U160 and an Address are 5 such chunks  *)
(* (20 bytes).  The model keeps the chunk structure and scales a chunk     *)
(* from 32 bits to ChunkBits bits, so that the numbers fit TLC's 32-bit   *)
(* integers; an Address is the big-endian sequence of its 5 chunks.        *)

ChunkBits == 2
U256_CHUNKS == 8
U160_CHUNKS == 5

ChunkRadix == 2 ^ ChunkBits
U160_MAX == ChunkRadix ^ U160_CHUNKS - 1
U256_MAX == ChunkRadix ^ U256_CHUNKS - 1

\* address!("2222222222222222222222222222222222222222"): every chunk is
\* the same pattern 0x22222222, carried as the chunk value 2.
NATIVE_TOKEN_CHUNK == 2
NATIVE_TOKEN_SYSTEM_ADDRESS == [i \in 1..U160_CHUNKS |-> NATIVE_TOKEN_CHUNK]

\* Uint::reduce_mod
reduce_mod(x, m) == x % m

\* U160::from(U256): the checked narrowing conversion (the value fits after reduce_mod)
U160_from(x) == x

\* Uint::to_le_bytes, chunk-wise: least significant chunk first.
U160_to_le_bytes(x) == [i \in 1..U160_CHUNKS |-> (x \div (ChunkRadix ^ (i - 1))) % ChunkRadix]

\* Uint::to_be_bytes::<20>, chunk-wise: most significant chunk first.
U160_to_be_bytes(x) == [i \in 1..U160_CHUNKS |-> (x \div (ChunkRadix ^ (U160_CHUNKS - i))) % ChunkRadix]

\* Address::from_slice
Address_from_slice(bytes) == bytes

\* is_impersonated_tx without the gas-price condition.
is_impersonated_tx_any_gas_price(sig, gp) ==
    IF sig.r = 1 /\ sig.v = TRUE
    THEN IF sig.s = 1
         THEN Some(NATIVE_TOKEN_SYSTEM_ADDRESS)
         ELSE Some(Address_from_slice(U160_to_be_bytes(U160_from(reduce_mod(sig.s, U160_MAX + 1)))))
    ELSE None

\* is_impersonated_tx (signed.rs)
is_impersonated_tx(sig, gp) ==
    IF sig.r = 1 /\ sig.v = TRUE /\ gp = Some(0)
    THEN IF sig.s = 1
         THEN Some(NATIVE_TOKEN_SYSTEM_ADDRESS)
         ELSE LET s1 == reduce_mod(sig.s, U160_MAX + 1)
                  s2 == U160_from(s1)
                  s3 == U160_to_be_bytes(s2)
              IN  Some(Address_from_slice(s3))
    ELSE None

\* SignedTransaction::recover_signer_unchecked; ecdsa is what
\* recover_signer_unchecked_with_buf returns for this transaction.
recover_signer_unchecked(sig, gp, ecdsa) ==
    LET address == is_impersonated_tx(sig, gp)
    IN  IF is_some(address) THEN [tag |-> "Ok", address |-> address.val, by |-> "impersonation"]
        ELSE ecdsa

\* What the ECDSA recovery can return: a recovered address or RecoveryError.
EcdsaOutcomes == {[tag |-> "Ok", address |-> [i \in 1..U160_CHUNKS |-> 1], by |-> "ecdsa"],
                  [tag |-> "RecoveryError"]}

\* Values of s: small ones, the ones around 2^160, one with low 160 bits 1,
\* one whose low 160 bits are the native-token address, and the maximum.
NativeAsNumber == NATIVE_TOKEN_CHUNK * ((ChunkRadix ^ U160_CHUNKS - 1) \div (ChunkRadix - 1))
SValues == {0, 1, 2, U160_MAX, U160_MAX + 1, U160_MAX + 2, 3 * (U160_MAX + 1) + 2,
            NativeAsNumber, 2 * (U160_MAX + 1) + NativeAsNumber, U256_MAX}
RValues == {0, 1, 2}
GasPrices == {None, Some(0), Some(1)}
Signatures == [r : RValues, s : SValues, v : BOOLEAN]

SignedIdle ==
    /\ signature = [r |-> 0, s |-> 0, v |-> FALSE]
    /\ gas_price = None
    /\ signer = NoResult

----------------------------------------------------------------------------
(* Execution strategy: inputs *)

\* At most this many receipts are accumulated in one block.
MaxTxs == 2

\* u64 arithmetic is carried modulo 2^U64Bits: the 64-bit word scaled to
\* TLC's 32-bit integers; every gas value below is far smaller.
U64Bits == 29
U64_MODULUS == 2 ^ U64Bits

\* b256!("0xba3e...41f8"), the hash of the hotfix, and some other hash.
HOTFIX_TX_HASH == "0xba3e0422720a7f9ac6ae0fee5097e7c5d46090c55d576f32da02f033117041f8"
OTHER_TX_HASH == "0x0000000000000000000000000000000000000000000000000000000000000001"
\* the gas used the hotfix assigns
HOTFIX_GAS_USED == 22768

\* The addresses of the system contracts and of the one-time deployment.
BEACON_ROOTS_ADDRESS == "0x000F3df6D732807Ef1319fB7B8bB8522d0Beac02"
HISTORY_STORAGE_ADDRESS == "0x0000F90827F1C53a10cb7A02335B175320002935"
COREWRITER_CONTRACT_ADDRESS == "0x3333333333333333333333333333333333333333"
COREWRITER_ENABLED_BLOCK_NUMBER == 7578300

\* The ring-buffer lengths of the beacon-roots contract (EIP-4788) and of
\* the block-hash history contract (EIP-2935).
HISTORY_BUFFER_LENGTH == 8191
HISTORY_SERVE_WINDOW == 8191

\* B256::with_last_byte(0x69) and a parent hash, as the numbers U256::from
\* makes of them; B256::ZERO is 0.
ROOT_0x69 == 105
PARENT_HASH == 171

\* Address::ZERO, the beneficiary of Header::default()
ADDRESS_ZERO == "0x0000000000000000000000000000000000000000"

\* EthBlockExecutionInput of a default header and an empty body.
DefaultInput ==
    [number |-> 0, timestamp |-> 0, parent_hash |-> 0, gas_limit |-> 0,
     parent_beacon_block_root |-> None, beneficiary |-> ADDRESS_ZERO,
     ommers |-> <<>>, withdrawals |-> None]

\* The bytecodes: the two system contracts of the tests, the bytecode of
\* the one-time deployment, and some other contract; "" is no code.
BEACON_ROOTS_CODE == "BEACON_ROOTS_CODE"
HISTORY_STORAGE_CODE == "HISTORY_STORAGE_CODE"
COREWRITER_BYTECODE == "608060405234801561000f575f5ffd5b50..."
OTHER_BYTECODE == "OTHER_BYTECODE"

\* Bytecode::hash_slow / keccak256 of a bytecode: injective on the
\* bytecodes above.
hash_slow(bytecode) == <<"keccak256", bytecode>>
KECCAK_EMPTY == hash_slow("")

\* AccountInfo::default(): what account_info().unwrap_or_default() gives
\* for an address without an account.
AccountInfo_default == [balance |-> 0, nonce |-> 0, code_hash |-> KECCAK_EMPTY, code |-> ""]

\* The account the tests insert for a system contract: no balance, nonce 1.
contract_account(bytecode) ==
    [balance |-> 0, nonce |-> 1, code_hash |-> hash_slow(bytecode), code |-> bytecode]

\* no account at all
NoAccounts == [a \in {} |-> AccountInfo_default]

\* The state handle: the state-clear flag, the accounts (a function from the
\* addresses that have an account to their AccountInfo), the storage written
\* (address, slot, value; an unwritten slot reads 0), and the addresses
\* with a transition in the transition state.
EmptyDb ==
    [state_clear_flag |-> FALSE, accounts |-> NoAccounts, storage |-> {}, transitions |-> {}]

\* State::basic
basic(d, address) ==
    IF address \in DOMAIN d.accounts THEN Some(d.accounts[address]) ELSE None

\* Whether a call to the address runs code.
has_code(d, address) ==
    IF address \in DOMAIN d.accounts THEN d.accounts[address].code # "" ELSE FALSE

\* Schedules of the execution tests: Cancun from timestamp 1
\* (eip_4788_non_genesis_call), and one with Spurious Dragon from block 1
\* and nothing later.
cancun_at_one == [shanghai_activated EXCEPT !.cancun = Some(1)]
spurious_dragon_at_one == [NoForks EXCEPT !.spurious_dragon = Some(1)]

ExecChainSpecs == {cancun_at_one, cancun_activated, prague_activated, spurious_dragon_at_one}

\* The blocks apply_pre_execution_changes is applied to: genesis, block 1,
\* a block past the history window, the block of the one-time deployment;
\* timestamps on both sides of the activation and past the ring buffer;
\* no root, the zero root, a non-zero root.
PreInputs ==
    {[DefaultInput EXCEPT !.number = n, !.timestamp = t, !.parent_hash = PARENT_HASH,
                          !.parent_beacon_block_root = r] :
        n \in {0, 1, HISTORY_SERVE_WINDOW + 1, COREWRITER_ENABLED_BLOCK_NUMBER},
        t \in {0, 1, HISTORY_BUFFER_LENGTH + 1},
        r \in {None, Some(0), Some(ROOT_0x69)}}

\* The account at the address of the one-time deployment before the
\* block: none, a funded account without code, an account with another
\* code, or the account as an earlier deployment left it.
CoreWriterAccounts ==
    {NoAccounts,
     COREWRITER_CONTRACT_ADDRESS :> [AccountInfo_default EXCEPT !.balance = 7, !.nonce = 3],
     COREWRITER_CONTRACT_ADDRESS :>
        [contract_account(OTHER_BYTECODE) EXCEPT !.balance = 7],
     COREWRITER_CONTRACT_ADDRESS :> contract_account(COREWRITER_BYTECODE)}

\* The accounts a block starts from: either system contract deployed or not.
PreAccounts ==
    {[a \in sys \cup DOMAIN cw |->
        IF a = BEACON_ROOTS_ADDRESS THEN contract_account(BEACON_ROOTS_CODE)
        ELSE IF a = HISTORY_STORAGE_ADDRESS THEN contract_account(HISTORY_STORAGE_CODE)
        ELSE cw[a]] :
        sys \in SUBSET {BEACON_ROOTS_ADDRESS, HISTORY_STORAGE_ADDRESS}, cw \in CoreWriterAccounts}

\* The states a block starts from: the accounts, and the flag as an
\* earlier block left it.
PreDbs ==
    {[EmptyDb EXCEPT !.state_clear_flag = f, !.accounts = acc] :
        f \in BOOLEAN, acc \in PreAccounts}

\* What the environment answers during pre-execution: whether each system
\* call runs without an EVM error, and whether the account load succeeds.
PreEnvs == [history_call_ok : BOOLEAN, beacon_call_ok : BOOLEAN, load_account_ok : BOOLEAN]

BlockGasLimits == {21000, 60000}
TxGasLimits == {21000, 30000}
EvmGasValues == {21000, 30000}
TxTypes == {"Legacy", "Eip1559"}

\* Signature and gas price of the transactions executed: the
\* impersonation pattern, and the same signature with a non-zero gas price.
TxSigners ==
    {[signature |-> [r |-> 1, s |-> 2, v |-> TRUE], gas_price |-> Some(0)],
     [signature |-> [r |-> 1, s |-> 2, v |-> TRUE], gas_price |-> Some(1)]}

\* Recovered<&TransactionSigned>: the fields execute_transaction reads.
\* The hash is the cached tx_hash() of the transaction, a field that
\* execute_transaction compares with the hotfix hash whatever the other
\* fields of the transaction are.
Txs ==
    {[gas_limit |-> g, signature |-> sg.signature, gas_price |-> sg.gas_price,
      hash |-> h, tx_type |-> ty] :
        g \in TxGasLimits, sg \in TxSigners, h \in {HOTFIX_TX_HASH, OTHER_TX_HASH}, ty \in TxTypes}

\* The account every state diff of the EVM changes (the caller that pays
\* for the gas), and what it held before the block.
TX_CALLER == "0x00000000000000000000000000000000000000aa"
CallerFunds == 100000

\* EvmState: the accounts a transaction changed, here the caller's after
\* paying for gas_used.
state_diff(gas) ==
    TX_CALLER :> [AccountInfo_default EXCEPT !.nonce = 1, !.balance = CallerFunds - gas]

\* What evm.transact(&tx) can return for tx: an error (an invalid
\* transaction or a database error), or a result whose gas used is at most
\* the transaction's gas limit and whose status is success or not
\* (revert, halt), together with the state diff.
EvmOutcomes(tx) ==
    {[tag |-> "Err"]} \cup
    {[tag |-> "Ok", gas_used |-> g, is_success |-> ok, logs |-> <<>>, state |-> state_diff(g)] :
        g \in {x \in EvmGasValues : x <= tx.gas_limit}, ok \in BOOLEAN}

----------------------------------------------------------------------------
(* Execution strategy: execute_transaction *)

\* self.input.gas_limit - self.gas_used on u64, when the subtraction wraps
block_available_gas(gas_limit, used) == (gas_limit - used) % U64_MODULUS

\* Whether that subtraction overflows
available_gas_underflows(gas_limit, used) == used > gas_limit

\* The accounting started from the gas an earlier run of the block used.
next_gas_used_carried_over(used, tx, evm_gas) ==
    LET carried == IF is_some(first_run) /\ used = 0 THEN first_run.val.gas_used ELSE used
        is_system_transaction == is_some(is_impersonated_tx(tx.signature, tx.gas_price))
        appended == IF ~is_system_transaction THEN carried + evm_gas ELSE carried
    IN  IF tx.hash = HOTFIX_TX_HASH THEN HOTFIX_GAS_USED ELSE appended

\* The accounting of execute_transaction: self.gas_used after "append gas
\* used" and the hotfix.
next_gas_used(used, tx, evm_gas) ==
    LET is_system_transaction == is_some(is_impersonated_tx(tx.signature, tx.gas_price))
        appended == IF ~is_system_transaction THEN used + evm_gas ELSE used
    IN  IF tx.hash = HOTFIX_TX_HASH THEN HOTFIX_GAS_USED ELSE appended

\* A receipt that reports every transaction as successful.
new_receipt_always_success(tx, evm, cumulative) ==
    [tx_type |-> tx.tx_type, success |-> TRUE, cumulative_gas_used |-> cumulative,
     logs |-> evm.logs]

\* The Receipt execute_transaction pushes.
new_receipt(tx, evm, cumulative) ==
    [tx_type |-> tx.tx_type, success |-> evm.is_success, cumulative_gas_used |-> cumulative,
     logs |-> evm.logs]

\* The result of the pre-check and of the EVM call: what execute_transaction returns.
execute_transaction_result(gas_limit, used, tx, evm) ==
    LET available == block_available_gas(gas_limit, used)
    IN  IF tx.gas_limit > available
        THEN [tag |-> "TransactionGasLimitMoreThanAvailableBlockGas",
              transaction_gas_limit |-> tx.gas_limit, block_available_gas |-> available]
        ELSE IF evm.tag = "Err" THEN [tag |-> "EvmError", hash |-> tx.hash]
        ELSE [tag |-> "Ok", gas_used |-> evm.gas_used]

NoCall == [tag |-> "none"]
\* the EVM was not reached by the call
NotCalled == [tag |-> "NotCalled"]

\* crate::fix::fix_state_diff(block number, index of the transaction,
\* state): a rewrite of the state diff of listed transactions of listed
\* blocks, none of which is among the blocks here.
fix_state_diff(number, tx_index, state) == state

\* State::commit: the accounts of the diff replace the ones of the state,
\* each through a transition.
commit(d, state) ==
    [d EXCEPT !.accounts = [a \in DOMAIN @ \cup DOMAIN state |->
                               IF a \in DOMAIN state THEN state[a] ELSE @[a]],
              !.transitions = @ \cup DOMAIN state]

\* execute_transaction with the hotfix applied before the EVM is called.
execute_transaction_hotfix_before_evm(inp, used, rcpts, d, tx, evm) ==
    LET res == execute_transaction_result(inp.gas_limit, used, tx, evm)
        hot == IF tx.hash = HOTFIX_TX_HASH THEN HOTFIX_GAS_USED ELSE used
    IN  IF res.tag = "TransactionGasLimitMoreThanAvailableBlockGas"
        THEN [res |-> res, gas_used |-> used, receipts |-> rcpts, db |-> d]
        ELSE IF res.tag # "Ok"
        THEN [res |-> res, gas_used |-> hot, receipts |-> rcpts, db |-> d]
        ELSE LET next == next_gas_used(used, tx, evm.gas_used)
             IN  [res |-> res, gas_used |-> next,
                  receipts |-> Append(rcpts, new_receipt(tx, evm, next)),
                  db |-> commit(d, fix_state_diff(inp.number, Len(rcpts), evm.state))]

\* execute_transaction with the receipt put in front of the earlier ones.
execute_transaction_receipt_prepended(inp, used, rcpts, d, tx, evm) ==
    LET res == execute_transaction_result(inp.gas_limit, used, tx, evm)
    IN  IF res.tag # "Ok"
        THEN [res |-> res, gas_used |-> used, receipts |-> rcpts, db |-> d]
        ELSE LET next == next_gas_used(used, tx, evm.gas_used)
             IN  [res |-> res, gas_used |-> next,
                  receipts |-> <<new_receipt(tx, evm, next)>> \o rcpts,
                  db |-> commit(d, fix_state_diff(inp.number, Len(rcpts), evm.state))]

\* BlockExecutionStrategy::execute_transaction: what it returns and the
\* gas_used, the receipts and the state it leaves.  An error returns
\* before anything is written; after the EVM has answered, the diff is
\* committed, the gas accounted and the receipt pushed.
execute_transaction(inp, used, rcpts, d, tx, evm) ==
    LET res == execute_transaction_result(inp.gas_limit, used, tx, evm)
    IN  IF res.tag # "Ok"
        THEN [res |-> res, gas_used |-> used, receipts |-> rcpts, db |-> d]
        ELSE LET next == next_gas_used(used, tx, evm.gas_used)
             IN  [res |-> res, gas_used |-> next,
                  receipts |-> Append(rcpts, new_receipt(tx, evm, next)),
                  db |-> commit(d, fix_state_diff(inp.number, Len(rcpts), evm.state))]

\* One call of execute_transaction(tx), the EVM answering evm.
\* overflow_checks: whether the build panics on arithmetic overflow (debug
\* profile) or wraps (release profile).
ExecuteTransaction(tx, evm, overflow_checks) ==
    /\ pc = "execute"
    /\ Len(receipts) < MaxTxs
    /\ IF available_gas_underflows(input.gas_limit, gas_used) /\ overflow_checks
       THEN /\ pc' = "panicked"
            /\ last' = [tag |-> "call", tx |-> tx, gas_used_before |-> gas_used,
                        evm |-> NotCalled, result |-> [tag |-> "panic"]]
            /\ UNCHANGED <<input, db, gas_used, receipts, evm_gas_total, output>>
       ELSE LET r == execute_transaction(input, gas_used, receipts, db, tx, evm)
            IN  /\ last' = [tag |-> "call", tx |-> tx, gas_used_before |-> gas_used,
                            receipts_before |-> receipts, db_before |-> db,
                            evm |-> IF r.res.tag = "TransactionGasLimitMoreThanAvailableBlockGas"
                                    THEN NotCalled ELSE evm,
                            result |-> r.res]
                /\ gas_used' = r.gas_used
                /\ receipts' = r.receipts
                /\ db' = r.db
                /\ evm_gas_total' =
                      IF r.res.tag = "Ok" /\ is_none(is_impersonated_tx(tx.signature, tx.gas_price))
                      THEN evm_gas_total + evm.gas_used ELSE evm_gas_total
                /\ UNCHANGED <<input, output, pc>>

\* EthereumHardforks::is_spurious_dragon_active_at_block
is_spurious_dragon_active_at_block(cs, number) ==
    is_some(cs.spurious_dragon) /\ number >= cs.spurious_dragon.val

\* A storage write of a system call: the slot takes the value and the
\* account gets a transition.
sstore(d, address, slot, value) ==
    [d EXCEPT !.storage = {w \in @ : ~(w[1] = address /\ w[2] = slot)}
                              \cup {<<address, slot, value>>},
              !.transitions = @ \cup {address}]

\* State::storage
storage(d, address, slot) ==
    IF \E w \in d.storage : w[1] = address /\ w[2] = slot
    THEN (CHOOSE w \in d.storage : w[1] = address /\ w[2] = slot)[3]
    ELSE 0

\* SystemCaller::apply_blockhashes_contract_call (EIP-2935): once Prague is
\* active and past genesis, the parent hash is stored at slot
\* (number - 1) mod HISTORY_SERVE_WINDOW; without code the call changes nothing.
apply_blockhashes_contract_call(cs, inp, d, call_ok) ==
    IF ~is_prague_active_at_timestamp(cs, inp.timestamp) \/ inp.number = 0
    THEN [res |-> Ok, db |-> d]
    ELSE IF ~call_ok THEN [res |-> [tag |-> "BlockHashContractCall"], db |-> d]
    ELSE IF ~has_code(d, HISTORY_STORAGE_ADDRESS) THEN [res |-> Ok, db |-> d]
    ELSE [res |-> Ok,
          db |-> sstore(d, HISTORY_STORAGE_ADDRESS, (inp.number - 1) % HISTORY_SERVE_WINDOW,
                        inp.parent_hash)]

\* SystemCaller::apply_beacon_root_contract_call (EIP-4788): once Cancun is
\* active the root is required; at genesis it must be zero and no call is
\* made; otherwise the contract stores the timestamp and the root in its
\* two ring buffers; without code the call changes nothing.
apply_beacon_root_contract_call(cs, inp, d, call_ok) ==
    IF ~is_cancun_active_at_timestamp(cs, inp.timestamp) THEN [res |-> Ok, db |-> d]
    ELSE IF is_none(inp.parent_beacon_block_root)
    THEN [res |-> [tag |-> "MissingParentBeaconBlockRoot"], db |-> d]
    ELSE IF inp.number = 0
    THEN IF inp.parent_beacon_block_root.val # 0
         THEN [res |-> [tag |-> "CancunGenesisParentBeaconBlockRootNotZero",
                        parent_beacon_block_root |-> inp.parent_beacon_block_root.val],
               db |-> d]
         ELSE [res |-> Ok, db |-> d]
    ELSE IF ~call_ok THEN [res |-> [tag |-> "BeaconRootContractCall"], db |-> d]
    ELSE IF ~has_code(d, BEACON_ROOTS_ADDRESS) THEN [res |-> Ok, db |-> d]
    ELSE LET timestamp_index == inp.timestamp % HISTORY_BUFFER_LENGTH
             d1 == sstore(d, BEACON_ROOTS_ADDRESS, timestamp_index, inp.timestamp)
         IN  [res |-> Ok,
              db |-> sstore(d1, BEACON_ROOTS_ADDRESS, timestamp_index + HISTORY_BUFFER_LENGTH,
                            inp.parent_beacon_block_root.val)]

\* CacheAccount::change followed by State::apply_transition: the account
\* takes the new info, keeps its storage, and gets a transition.
apply_transition(d, address, info) ==
    [d EXCEPT !.accounts = (address :> info) @@ @,
              !.transitions = @ \cup {address}]

\* deploy_corewriter_contract building the account anew instead of from
\* the account's own info.
deploy_corewriter_contract_fresh_account(d, block_number, load_account_ok) ==
    IF block_number # COREWRITER_ENABLED_BLOCK_NUMBER THEN [res |-> Ok, db |-> d]
    ELSE IF ~load_account_ok THEN [res |-> [tag |-> "Other"], db |-> d]
    ELSE LET bytecode == COREWRITER_BYTECODE
             info1 == [AccountInfo_default EXCEPT !.code_hash = hash_slow(bytecode),
                                                  !.code = bytecode]
         IN  [res |-> Ok, db |-> apply_transition(d, COREWRITER_CONTRACT_ADDRESS, info1)]

\* EthExecutionStrategy::deploy_corewriter_contract: at the one block
\* number the bytecode and its hash are put into the account's info, which
\* is otherwise the account's own info or the default one.
deploy_corewriter_contract(d, block_number, load_account_ok) ==
    IF block_number # COREWRITER_ENABLED_BLOCK_NUMBER THEN [res |-> Ok, db |-> d]
    ELSE IF ~load_account_ok THEN [res |-> [tag |-> "Other"], db |-> d]
    ELSE LET bytecode == COREWRITER_BYTECODE
             account == basic(d, COREWRITER_CONTRACT_ADDRESS)
             info == IF is_some(account) THEN account.val ELSE AccountInfo_default
             info1 == [info EXCEPT !.code_hash = hash_slow(bytecode), !.code = bytecode]
         IN  [res |-> Ok, db |-> apply_transition(d, COREWRITER_CONTRACT_ADDRESS, info1)]

\* apply_pre_execution_changes without the beacon-root call.
apply_pre_execution_changes_without_beacon_root(cs, inp, d, env) ==
    LET state_clear_flag == is_spurious_dragon_active_at_block(cs, inp.number)
        d1 == [d EXCEPT !.state_clear_flag = state_clear_flag]
        blockhashes == apply_blockhashes_contract_call(cs, inp, d1, env.history_call_ok)
        corewriter == deploy_corewriter_contract(blockhashes.db, inp.number, env.load_account_ok)
    IN  IF blockhashes.res # Ok
        THEN [res |-> blockhashes.res, db |-> blockhashes.db,
              steps |-> <<"set_state_clear_flag", "apply_blockhashes_contract_call">>]
        ELSE [res |-> corewriter.res, db |-> corewriter.db,
              steps |-> <<"set_state_clear_flag", "apply_blockhashes_contract_call",
                          "deploy_corewriter_contract">>]

\* apply_pre_execution_changes without the block-hash history call.
apply_pre_execution_changes_without_blockhashes(cs, inp, d, env) ==
    LET state_clear_flag == is_spurious_dragon_active_at_block(cs, inp.number)
        d1 == [d EXCEPT !.state_clear_flag = state_clear_flag]
        beacon_root == apply_beacon_root_contract_call(cs, inp, d1, env.beacon_call_ok)
        corewriter == deploy_corewriter_contract(beacon_root.db, inp.number, env.load_account_ok)
    IN  IF beacon_root.res # Ok
        THEN [res |-> beacon_root.res, db |-> beacon_root.db,
              steps |-> <<"set_state_clear_flag", "apply_beacon_root_contract_call">>]
        ELSE [res |-> corewriter.res, db |-> corewriter.db,
              steps |-> <<"set_state_clear_flag", "apply_beacon_root_contract_call",
                          "deploy_corewriter_contract">>]

\* apply_pre_execution_changes dropping the error of the beacon-root call.
apply_pre_execution_changes_beacon_root_error_dropped(cs, inp, d, env) ==
    LET state_clear_flag == is_spurious_dragon_active_at_block(cs, inp.number)
        d1 == [d EXCEPT !.state_clear_flag = state_clear_flag]
        blockhashes == apply_blockhashes_contract_call(cs, inp, d1, env.history_call_ok)
        beacon_root == apply_beacon_root_contract_call(cs, inp, blockhashes.db, env.beacon_call_ok)
        corewriter == deploy_corewriter_contract(beacon_root.db, inp.number, env.load_account_ok)
    IN  IF blockhashes.res # Ok
        THEN [res |-> blockhashes.res, db |-> blockhashes.db,
              steps |-> <<"set_state_clear_flag", "apply_blockhashes_contract_call">>]
        ELSE [res |-> corewriter.res, db |-> corewriter.db,
              steps |-> <<"set_state_clear_flag", "apply_blockhashes_contract_call",
                          "apply_beacon_root_contract_call", "deploy_corewriter_contract">>]

\* apply_pre_execution_changes refusing a Cancun block whose beacon-root
\* contract has no code.
apply_pre_execution_changes_beacon_code_required(cs, inp, d, env) ==
    LET state_clear_flag == is_spurious_dragon_active_at_block(cs, inp.number)
        d1 == [d EXCEPT !.state_clear_flag = state_clear_flag]
        blockhashes == apply_blockhashes_contract_call(cs, inp, d1, env.history_call_ok)
        beacon_root == apply_beacon_root_contract_call(cs, inp, blockhashes.db, env.beacon_call_ok)
        corewriter == deploy_corewriter_contract(beacon_root.db, inp.number, env.load_account_ok)
    IN  IF blockhashes.res # Ok
        THEN [res |-> blockhashes.res, db |-> blockhashes.db,
              steps |-> <<"set_state_clear_flag", "apply_blockhashes_contract_call">>]
        ELSE IF beacon_root.res # Ok
        THEN [res |-> beacon_root.res, db |-> beacon_root.db,
              steps |-> <<"set_state_clear_flag", "apply_blockhashes_contract_call",
                          "apply_beacon_root_contract_call">>]
        ELSE IF is_cancun_active_at_timestamp(cs, inp.timestamp)
                /\ ~has_code(d, BEACON_ROOTS_ADDRESS)
        THEN [res |-> [tag |-> "BeaconRootContractCall"], db |-> beacon_root.db,
              steps |-> <<"set_state_clear_flag", "apply_blockhashes_contract_call",
                          "apply_beacon_root_contract_call">>]
        ELSE [res |-> corewriter.res, db |-> corewriter.db,
              steps |-> <<"set_state_clear_flag", "apply_blockhashes_contract_call",
                          "apply_beacon_root_contract_call", "deploy_corewriter_contract">>]

\* apply_pre_execution_changes with the one-time deployment made before
\* the system calls.
apply_pre_execution_changes_deployment_first(cs, inp, d, env) ==
    LET state_clear_flag == is_spurious_dragon_active_at_block(cs, inp.number)
        d1 == [d EXCEPT !.state_clear_flag = state_clear_flag]
        corewriter == deploy_corewriter_contract(d1, inp.number, env.load_account_ok)
        blockhashes == apply_blockhashes_contract_call(cs, inp, corewriter.db, env.history_call_ok)
        beacon_root == apply_beacon_root_contract_call(cs, inp, blockhashes.db, env.beacon_call_ok)
    IN  IF corewriter.res # Ok
        THEN [res |-> corewriter.res, db |-> corewriter.db,
              steps |-> <<"set_state_clear_flag", "deploy_corewriter_contract">>]
        ELSE IF blockhashes.res # Ok
        THEN [res |-> blockhashes.res, db |-> blockhashes.db,
              steps |-> <<"set_state_clear_flag", "deploy_corewriter_contract",
                          "apply_blockhashes_contract_call">>]
        ELSE [res |-> beacon_root.res, db |-> beacon_root.db,
              steps |-> <<"set_state_clear_flag", "deploy_corewriter_contract",
                          "apply_blockhashes_contract_call", "apply_beacon_root_contract_call">>]

\* BlockExecutionStrategy::apply_pre_execution_changes: the result, the
\* state it leaves, and the steps it ran.
apply_pre_execution_changes(cs, inp, d, env) ==
    LET state_clear_flag == is_spurious_dragon_active_at_block(cs, inp.number)
        d1 == [d EXCEPT !.state_clear_flag = state_clear_flag]
        blockhashes == apply_blockhashes_contract_call(cs, inp, d1, env.history_call_ok)
        beacon_root == apply_beacon_root_contract_call(cs, inp, blockhashes.db, env.beacon_call_ok)
        corewriter == deploy_corewriter_contract(beacon_root.db, inp.number, env.load_account_ok)
    IN  IF blockhashes.res # Ok
        THEN [res |-> blockhashes.res, db |-> blockhashes.db,
              steps |-> <<"set_state_clear_flag", "apply_blockhashes_contract_call">>]
        ELSE IF beacon_root.res # Ok
        THEN [res |-> beacon_root.res, db |-> beacon_root.db,
              steps |-> <<"set_state_clear_flag", "apply_blockhashes_contract_call",
                          "apply_beacon_root_contract_call">>]
        ELSE [res |-> corewriter.res, db |-> corewriter.db,
              steps |-> <<"set_state_clear_flag", "apply_blockhashes_contract_call",
                          "apply_beacon_root_contract_call", "deploy_corewriter_contract">>]

\* One call of apply_pre_execution_changes, the environment answering env.
ApplyPreExecutionChanges(env) ==
    /\ pc = "pre"
    /\ LET r == apply_pre_execution_changes(chain_spec, input, db, env)
       IN  /\ db' = r.db
           /\ last' = [tag |-> "apply_pre_execution_changes", env |-> env, result |-> r.res,
                       steps |-> r.steps, db_before |-> db]
           /\ pc' = IF r.res = Ok THEN "execute" ELSE "failed"
    /\ UNCHANGED <<input, gas_used, receipts, evm_gas_total, output>>

----------------------------------------------------------------------------
(* Execution strategy: apply_post_execution_changes *)

\* The request types of EIP-7685: deposits, withdrawal requests,
\* consolidation requests.
DEPOSIT_REQUEST_TYPE == 0
WITHDRAWAL_REQUEST_TYPE == 1
CONSOLIDATION_REQUEST_TYPE == 2

\* Withdrawal::amount is in Gwei; amount_wei() multiplies by this.
GWEI_TO_WEI == 1000000000

\* The base block reward before Paris, scaled down to TLC's integers.
BlockReward == 64

\* The block at which the modelled chain specs schedule the DAO fork.
DaoBlock == 2

\* The deposit contract of the chain spec.
MAINNET_DEPOSIT_CONTRACT_ADDRESS == "0x00000000219ab540356cbb839cbe05303d7705fa"

\* dao_fork: the beneficiary and the drained accounts, the list carried by
\* its first two entries.
DAO_HARDFORK_BENEFICIARY == "0xbf4ed7b27f1d666546e30d74d50d173d20bca754"
DAO_HARDFORK_ACCOUNTS ==
    <<"0xd4fe7bc31cedb7bfb8a345f31e668033056b2728",
      "0xb3fb0e5aba0e20e5c49d252dfd30e102b171a425">>

\* the recipient of test_balance_increment_not_duplicated, a block
\* beneficiary and an ommer's beneficiary
WITHDRAWAL_RECIPIENT == "0x1000000000000000000000000000000000000000"
COINBASE == "0x2adc25665018aa1fe0e6bc666dac8fc2697ff9ba"
OMMER_COINBASE == "0x3adc25665018aa1fe0e6bc666dac8fc2697ff9ba"

\* Iterator::sum over a sequence of numbers
RECURSIVE Sum(_)
Sum(s) == IF s = <<>> THEN 0 ELSE s[1] + Sum(Tail(s))

\* HashMap<Address, u128>::default()
NoIncrements == [a \in {} |-> 0]

\* *balance_increments.entry(address).or_default() += amount
add_increment(increments, address, amount) ==
    IF address \in DOMAIN increments
    THEN [increments EXCEPT ![address] = @ + amount]
    ELSE (address :> amount) @@ increments

\* ForkCondition::transitions_at_block: the fork is scheduled by block
\* number and this is its block.
transitions_at_block(fork, number) == is_some(fork) /\ fork.val = number

\* reth_evm::state_change::calc::base_block_reward: none once Paris is active
base_block_reward(cs, number) ==
    IF is_paris_active_at_block(cs, number) = Some(TRUE) THEN None ELSE Some(BlockReward)

\* calc::ommer_reward and calc::block_reward
ommer_reward(base, block_number, ommer_number) ==
    ((8 + ommer_number - block_number) * base) \div 8

block_reward(base, ommers) == base + (base \div 32) * ommers

RECURSIVE add_ommer_rewards(_, _, _, _)
add_ommer_rewards(increments, ommers, base, number) ==
    IF ommers = <<>> THEN increments
    ELSE add_ommer_rewards(
            add_increment(increments, ommers[1].beneficiary,
                          ommer_reward(base, number, ommers[1].number)),
            Tail(ommers), base, number)

\* insert_post_block_withdrawals_balance_increments: once Shanghai is
\* active every withdrawal with a non-zero amount credits its address
\* with the amount in wei.
RECURSIVE add_withdrawals(_, _)
add_withdrawals(increments, withdrawals) ==
    IF withdrawals = <<>> THEN increments
    ELSE add_withdrawals(
            IF withdrawals[1].amount > 0
            THEN add_increment(increments, withdrawals[1].address,
                               withdrawals[1].amount * GWEI_TO_WEI)
            ELSE increments,
            Tail(withdrawals))

\* reth_evm::state_change::post_block_balance_increments, over the number,
\* timestamp and beneficiary of the block (evm.block() carries those of
\* the header), the ommers and the withdrawals.
post_block_balance_increments(cs, inp) ==
    LET base == base_block_reward(cs, inp.number)
        rewards ==
            IF is_some(base)
            THEN add_increment(add_ommer_rewards(NoIncrements, inp.ommers, base.val, inp.number),
                               inp.beneficiary, block_reward(base.val, Len(inp.ommers)))
            ELSE NoIncrements
    IN  IF is_shanghai_active_at_timestamp(cs, inp.timestamp) /\ is_some(inp.withdrawals)
        THEN add_withdrawals(rewards, inp.withdrawals.val)
        ELSE rewards

\* eip6110::parse_deposits_from_receipts: the deposit events the deposit
\* contract logged, in receipt and log order; a log of the contract that
\* does not decode is an error.
RECURSIVE deposit_logs(_)
deposit_logs(logs) ==
    IF logs = <<>> THEN <<>>
    ELSE IF logs[1].address = MAINNET_DEPOSIT_CONTRACT_ADDRESS
    THEN <<logs[1].data>> \o deposit_logs(Tail(logs))
    ELSE deposit_logs(Tail(logs))

RECURSIVE all_logs(_)
all_logs(rcpts) == IF rcpts = <<>> THEN <<>> ELSE rcpts[1].logs \o all_logs(Tail(rcpts))

parse_deposits_from_receipts(rcpts) ==
    LET deposits == deposit_logs(all_logs(rcpts))
    IN  IF \E i \in 1..Len(deposits) : deposits[i] = "malformed"
        THEN [res |-> [tag |-> "DepositRequestDecode"], val |-> <<>>]
        ELSE [res |-> Ok, val |-> deposits]

\* Requests::push_request_with_type
push_request_with_type(requests, request_type, data) ==
    Append(requests, [type |-> request_type, data |-> data])

\* SystemCaller::apply_post_execution_changes: the withdrawal requests and
\* the consolidation requests the two post-block system calls return, a
\* type without entries left out; an error of either call is returned.
\* The storage of the two request contracts is not part of the state here.
system_caller_apply_post_execution_changes(env) ==
    IF env.withdrawal_requests.tag = "Err"
    THEN [res |-> [tag |-> "WithdrawalRequestsContractCall"], val |-> <<>>]
    ELSE IF env.consolidation_requests.tag = "Err"
    THEN [res |-> [tag |-> "ConsolidationRequestsContractCall"], val |-> <<>>]
    ELSE LET r1 == IF env.withdrawal_requests.val # <<>>
                   THEN push_request_with_type(<<>>, WITHDRAWAL_REQUEST_TYPE,
                                               env.withdrawal_requests.val)
                   ELSE <<>>
             r2 == IF env.consolidation_requests.val # <<>>
                   THEN push_request_with_type(r1, CONSOLIDATION_REQUEST_TYPE,
                                               env.consolidation_requests.val)
                   ELSE r1
         IN  [res |-> Ok, val |-> r2]

\* The requests of the block with a section for the deposits even when
\* there is none.
post_execution_requests_empty_deposits_kept(cs, inp, rcpts, env) ==
    IF is_prague_active_at_timestamp(cs, inp.timestamp)
    THEN LET deposit_requests == parse_deposits_from_receipts(rcpts)
             requests == push_request_with_type(<<>>, DEPOSIT_REQUEST_TYPE,
                                                deposit_requests.val)
             system == system_caller_apply_post_execution_changes(env)
         IN  IF deposit_requests.res # Ok THEN [res |-> deposit_requests.res, val |-> <<>>]
             ELSE IF system.res # Ok THEN [res |-> system.res, val |-> <<>>]
             ELSE [res |-> Ok, val |-> requests \o system.val]
    ELSE [res |-> Ok, val |-> <<>>]

\* execute.rs:275-290: the requests of the block.
post_execution_requests(cs, inp, rcpts, env) ==
    IF is_prague_active_at_timestamp(cs, inp.timestamp)
    THEN LET deposit_requests == parse_deposits_from_receipts(rcpts)
             requests == IF deposit_requests.val # <<>>
                         THEN push_request_with_type(<<>>, DEPOSIT_REQUEST_TYPE,
                                                     deposit_requests.val)
                         ELSE <<>>
             system == system_caller_apply_post_execution_changes(env)
         IN  IF deposit_requests.res # Ok THEN [res |-> deposit_requests.res, val |-> <<>>]
             ELSE IF system.res # Ok THEN [res |-> system.res, val |-> <<>>]
             ELSE [res |-> Ok, val |-> requests \o system.val]
    ELSE [res |-> Ok, val |-> <<>>]

\* State::drain_balances: the balances of the addresses, each set to zero
\* through a transition.
drain_balances(d, addresses) ==
    LET listed == {addresses[i] : i \in 1..Len(addresses)}
    IN  [balances |-> [i \in 1..Len(addresses) |->
                          IF is_some(basic(d, addresses[i]))
                          THEN basic(d, addresses[i]).val.balance ELSE 0],
         db |-> [d EXCEPT
                   !.accounts = [a \in DOMAIN @ |->
                                    IF a \in listed THEN [@[a] EXCEPT !.balance = 0] ELSE @[a]],
                   !.transitions = @ \cup listed]]

\* The irregular state change crediting the beneficiary with the balance
\* of the first drained account only.
irregular_state_change_first_account_only(cs, inp, d, increments, env) ==
    IF transitions_at_block(cs.dao, inp.number)
    THEN LET drained == drain_balances(d, DAO_HARDFORK_ACCOUNTS)
             drained_balance == drained.balances[1]
         IN  IF ~env.drain_ok
             THEN [res |-> [tag |-> "IncrementBalanceFailed"], db |-> d,
                   balance_increments |-> increments, drained |-> <<>>]
             ELSE [res |-> Ok, db |-> drained.db,
                   balance_increments |->
                       add_increment(increments, DAO_HARDFORK_BENEFICIARY, drained_balance),
                   drained |-> drained.balances]
    ELSE [res |-> Ok, db |-> d, balance_increments |-> increments, drained |-> <<>>]

\* execute.rs:299-312: the irregular state change at the DAO hard fork.
irregular_state_change(cs, inp, d, increments, env) ==
    IF transitions_at_block(cs.dao, inp.number)
    THEN LET drained == drain_balances(d, DAO_HARDFORK_ACCOUNTS)
             drained_balance == Sum(drained.balances)
         IN  IF ~env.drain_ok
             THEN [res |-> [tag |-> "IncrementBalanceFailed"], db |-> d,
                   balance_increments |-> increments, drained |-> <<>>]
             ELSE [res |-> Ok, db |-> drained.db,
                   balance_increments |->
                       add_increment(increments, DAO_HARDFORK_BENEFICIARY, drained_balance),
                   drained |-> drained.balances]
    ELSE [res |-> Ok, db |-> d, balance_increments |-> increments, drained |-> <<>>]

\* State::increment_balances: every non-zero increment is added to its
\* account through a transition.
increment_balances(d, increments) ==
    LET credited == {a \in DOMAIN increments : increments[a] # 0}
    IN  [d EXCEPT
           !.accounts = [a \in DOMAIN @ \cup credited |->
                            IF a \in credited
                            THEN LET info == IF a \in DOMAIN @ THEN @[a] ELSE AccountInfo_default
                                 IN  [info EXCEPT !.balance = @ + increments[a]]
                            ELSE @[a]],
           !.transitions = @ \cup credited]

\* reth_evm::execute::balance_increment_state: the accounts with a
\* non-zero increment as the state holds them.
balance_increment_state(increments, d) ==
    [a \in {x \in DOMAIN increments : increments[x] # 0} |-> d.accounts[a]]

\* The increments applied a second time before the report to the hook.
increment_and_report_applied_twice(d, increments, env) ==
    IF ~env.increment_ok
    THEN [res |-> [tag |-> "IncrementBalanceFailed"], db |-> d, balance_state |-> NoAccounts]
    ELSE LET d1 == increment_balances(increment_balances(d, increments), increments)
         IN  [res |-> Ok, db |-> d1, balance_state |-> balance_increment_state(increments, d1)]

\* execute.rs:313-323: the increments are applied and the accounts they
\* changed are reported to the state hook (increment_balances has loaded
\* every one of them, so balance_increment_state finds them).
increment_and_report(d, increments, env) ==
    IF ~env.increment_ok
    THEN [res |-> [tag |-> "IncrementBalanceFailed"], db |-> d, balance_state |-> NoAccounts]
    ELSE LET d1 == increment_balances(d, increments)
         IN  [res |-> Ok, db |-> d1, balance_state |-> balance_increment_state(increments, d1)]

\* The gas used taken from the first receipt.
result_gas_used_of_first_receipt(rcpts) ==
    IF rcpts = <<>> THEN 0 ELSE rcpts[1].cumulative_gas_used

\* execute.rs:325: self.receipts.last().map(|r| r.cumulative_gas_used).unwrap_or_default()
result_gas_used(rcpts) ==
    IF rcpts = <<>> THEN 0 ELSE rcpts[Len(rcpts)].cumulative_gas_used

\* what apply_post_execution_changes leaves when it returns an error
post_execution_error(res, d, increments, drained) ==
    [res |-> res, db |-> d, output |-> None, balance_increments |-> increments,
     drained |-> drained, balance_state |-> NoAccounts]

\* BlockExecutionStrategy::apply_post_execution_changes: the result, the
\* state it leaves, the BlockExecutionResult, the increments applied, the
\* balances drained and the accounts reported to the state hook.
apply_post_execution_changes(cs, inp, d, rcpts, env) ==
    LET requests == post_execution_requests(cs, inp, rcpts, env)
        balance_increments == post_block_balance_increments(cs, inp)
        irregular == irregular_state_change(cs, inp, d, balance_increments, env)
        incremented == increment_and_report(irregular.db, irregular.balance_increments, env)
    IN  IF requests.res # Ok
        THEN post_execution_error(requests.res, d, NoIncrements, <<>>)
        ELSE IF irregular.res # Ok
        THEN post_execution_error(irregular.res, irregular.db, balance_increments, <<>>)
        ELSE IF incremented.res # Ok
        THEN post_execution_error(incremented.res, incremented.db,
                                  irregular.balance_increments, irregular.drained)
        ELSE [res |-> Ok, db |-> incremented.db,
              output |-> Some([receipts |-> rcpts, requests |-> requests.val,
                               gas_used |-> result_gas_used(rcpts)]),
              balance_increments |-> irregular.balance_increments,
              drained |-> irregular.drained,
              balance_state |-> incremented.balance_state]

\* One call of apply_post_execution_changes, the environment answering env.
ApplyPostExecutionChanges(env) ==
    /\ pc = "execute"
    /\ LET r == apply_post_execution_changes(chain_spec, input, db, receipts, env)
       IN  /\ db' = r.db
           /\ output' = r.output
           /\ last' = [tag |-> "apply_post_execution_changes", env |-> env, result |-> r.res,
                       db_before |-> db,
                       post_block_increments |-> post_block_balance_increments(chain_spec, input),
                       balance_increments |-> r.balance_increments,
                       drained |-> r.drained, balance_state |-> r.balance_state]
           /\ pc' = IF r.res = Ok THEN "done" ELSE "failed"
    /\ UNCHANGED <<input, gas_used, receipts, evm_gas_total>>

\* The build profiles that matter in the current state: the profile only
\* shows when the subtraction overflows.
BuildProfiles ==
    IF available_gas_underflows(input.gas_limit, gas_used) THEN BOOLEAN ELSE {FALSE}

ExecIdle ==
    /\ input = DefaultInput
    /\ db = EmptyDb
    /\ gas_used = 0
    /\ receipts = <<>>
    /\ evm_gas_total = 0
    /\ output = None
    /\ last = NoCall
    /\ pc = "idle"

----------------------------------------------------------------------------
(* The execution strategy *)

\* EthExecutionStrategy::new: no receipts, gas_used 0.
Init ==
    /\ input \in {[DefaultInput EXCEPT !.gas_limit = g] : g \in BlockGasLimits}
    /\ db = EmptyDb
    /\ gas_used = 0
    /\ receipts = <<>>
    /\ evm_gas_total = 0
    /\ output = None
    /\ last = NoCall
    /\ pc = "execute"
    /\ HeaderIdle
    /\ SignedIdle
    /\ RecordIdle
    /\ RpcIdle

Next ==
    \E tx \in Txs : \E evm \in EvmOutcomes(tx) : \E overflow_checks \in BuildProfiles :
        /\ ExecuteTransaction(tx, evm, overflow_checks)
        /\ UNCHANGED <<headerVars, signedVars, recordVars, rpcVars>>

Spec == Init /\ [][Next]_vars

----------------------------------------------------------------------------
(* The execution strategy before the first transaction *)

\* BlockExecutionStrategyFactory::create_strategy: a strategy over the
\* state a block starts from.
InitPre ==
    /\ chain_spec \in ExecChainSpecs
    /\ input \in PreInputs
    /\ db \in PreDbs
    /\ gas_used = 0
    /\ receipts = <<>>
    /\ evm_gas_total = 0
    /\ output = None
    /\ last = NoCall
    /\ pc = "pre"
    /\ header = DefaultHeader
    /\ parent = DefaultHeader
    /\ present_timestamp = 0
    /\ result = NoResult
    /\ chain = <<>>
    /\ SignedIdle
    /\ RecordIdle
    /\ RpcIdle

NextPre ==
    \E env \in PreEnvs : ApplyPreExecutionChanges(env) /\ UNCHANGED <<headerVars, signedVars, recordVars, rpcVars>>

SpecPre == InitPre /\ [][NextPre]_vars

----------------------------------------------------------------------------
(* The execution strategy to the end of the block *)

\* A schedule before Paris with the DAO fork at DaoBlock.
dao_scheduled == [NoForks EXCEPT !.dao = Some(DaoBlock)]

PostChainSpecs == {dao_scheduled, shanghai_activated, prague_activated}

\* Withdrawal: the fields post_block_balance_increments reads
Withdrawal(address, amount) == [address |-> address, amount |-> amount]

\* The withdrawals of a block: none, an empty list, one withdrawal of 0, 1
\* or 2 Gwei, two withdrawals to the same address.
PostWithdrawals ==
    {None, Some(<<>>)} \cup
    {Some(<<Withdrawal(WITHDRAWAL_RECIPIENT, a)>>) : a \in 0..2} \cup
    {Some(<<Withdrawal(WITHDRAWAL_RECIPIENT, 1), Withdrawal(WITHDRAWAL_RECIPIENT, 1)>>)}

\* The blocks: before Paris a block at or before DaoBlock with or without
\* an ommer and no withdrawals, its beneficiary an ordinary address, the
\* beneficiary of the DAO fork or one of the drained accounts; after Paris
\* a block without ommers.
PostInputs(cs) ==
    IF cs = dao_scheduled
    THEN {[DefaultInput EXCEPT !.number = n, !.gas_limit = 60000, !.beneficiary = b,
                               !.ommers = o] :
            n \in {DaoBlock - 1, DaoBlock},
            b \in {COINBASE, DAO_HARDFORK_BENEFICIARY, DAO_HARDFORK_ACCOUNTS[1]},
            o \in {<<>>, <<[beneficiary |-> OMMER_COINBASE, number |-> 0]>>}}
    ELSE {[DefaultInput EXCEPT !.number = 1, !.gas_limit = 60000, !.beneficiary = COINBASE,
                               !.withdrawals = w] : w \in PostWithdrawals}

\* an account without code holding the balance
funded_account(balance) == [AccountInfo_default EXCEPT !.balance = balance]

\* The accounts the block ends on: before Paris the drained accounts (none,
\* the first, both) and the beneficiary of the DAO fork (none or funded);
\* after Paris the recipient of the withdrawals (none or the balance 100 of
\* test_balance_increment_not_duplicated).
PostAccounts(cs) ==
    IF cs = dao_scheduled
    THEN {[a \in drained \cup ben |->
              IF a = DAO_HARDFORK_ACCOUNTS[1] THEN funded_account(5)
              ELSE IF a = DAO_HARDFORK_ACCOUNTS[2] THEN funded_account(7)
              ELSE funded_account(3)] :
            drained \in {{}, {DAO_HARDFORK_ACCOUNTS[1]},
                         {DAO_HARDFORK_ACCOUNTS[1], DAO_HARDFORK_ACCOUNTS[2]}},
            ben \in {{}, {DAO_HARDFORK_BENEFICIARY}}}
    ELSE {NoAccounts, WITHDRAWAL_RECIPIENT :> funded_account(100)}

\* The transactions of the block: an ordinary one, the one of the hotfix,
\* an impersonated one.
PostTxs ==
    {tx \in Txs : /\ tx.gas_limit = 30000
                  /\ tx.tx_type = "Legacy"
                  /\ (tx.hash = HOTFIX_TX_HASH => tx.gas_price = Some(1))}

\* Log: the emitting address and the data
Log(address, data) == [address |-> address, data |-> data]

\* The logs of a transaction: none, a deposit event, another contract's
\* log followed by a deposit event, a log of the deposit contract that
\* does not decode.
PostLogs ==
    {<<>>,
     <<Log(MAINNET_DEPOSIT_CONTRACT_ADDRESS, "deposit_a")>>,
     <<Log(COINBASE, "transfer"), Log(MAINNET_DEPOSIT_CONTRACT_ADDRESS, "deposit_b")>>,
     <<Log(MAINNET_DEPOSIT_CONTRACT_ADDRESS, "malformed")>>}

\* What the EVM answers in these blocks: the logs matter once Prague is active.
PostEvmOutcomes(cs, inp, tx) ==
    {[tag |-> "Err"],
     [tag |-> "Ok", gas_used |-> 30000, is_success |-> FALSE, logs |-> <<>>,
      state |-> state_diff(30000)]} \cup
    {[tag |-> "Ok", gas_used |-> 21000, is_success |-> TRUE, logs |-> l,
      state |-> state_diff(21000)] :
        l \in IF is_prague_active_at_timestamp(cs, inp.timestamp) THEN PostLogs ELSE {<<>>}}

\* what a post-block system call returns
SystemCallErr == [tag |-> "Err"]
SystemCallOk(data) == [tag |-> "Ok", val |-> data]

\* What the environment answers at the end of the block: the two system
\* calls (made only once Prague is active), the drain (made only at the
\* DAO fork block) and the increment of the balances.
PostEnvs(cs, inp) ==
    LET quiet == [withdrawal_requests |-> SystemCallOk(<<>>),
                  consolidation_requests |-> SystemCallOk(<<>>),
                  drain_ok |-> TRUE, increment_ok |-> TRUE]
    IN  {quiet, [quiet EXCEPT !.increment_ok = FALSE]}
        \cup (IF transitions_at_block(cs.dao, inp.number)
              THEN {[quiet EXCEPT !.drain_ok = FALSE]} ELSE {})
        \cup (IF is_prague_active_at_timestamp(cs, inp.timestamp)
              THEN {[quiet EXCEPT !.withdrawal_requests = SystemCallErr],
                    [quiet EXCEPT !.consolidation_requests = SystemCallErr],
                    [quiet EXCEPT !.withdrawal_requests = SystemCallOk(<<"w1">>)],
                    [quiet EXCEPT !.consolidation_requests = SystemCallOk(<<"c1">>)],
                    [quiet EXCEPT !.withdrawal_requests = SystemCallOk(<<"w1">>),
                                  !.consolidation_requests = SystemCallOk(<<"c1">>)]}
              ELSE {})

InitPost ==
    /\ chain_spec \in PostChainSpecs
    /\ input \in PostInputs(chain_spec)
    /\ db \in {[EmptyDb EXCEPT !.accounts = acc] : acc \in PostAccounts(chain_spec)}
    /\ gas_used = 0
    /\ receipts = <<>>
    /\ evm_gas_total = 0
    /\ output = None
    /\ last = NoCall
    /\ pc = "execute"
    /\ header = DefaultHeader
    /\ parent = DefaultHeader
    /\ present_timestamp = 0
    /\ result = NoResult
    /\ chain = <<>>
    /\ SignedIdle
    /\ RecordIdle
    /\ RpcIdle

NextPost ==
    \/ \E tx \in PostTxs : \E evm \in PostEvmOutcomes(chain_spec, input, tx) :
          \E overflow_checks \in BuildProfiles :
            /\ ExecuteTransaction(tx, evm, overflow_checks)
            /\ UNCHANGED <<headerVars, signedVars, recordVars, rpcVars>>
    \/ \E env \in PostEnvs(chain_spec, input) :
            /\ ApplyPostExecutionChanges(env)
            /\ UNCHANGED <<headerVars, signedVars, recordVars, rpcVars>>

SpecPost == InitPost /\ [][NextPost]_vars

----------------------------------------------------------------------------
(* The same block executed again on a content-identical state *)

\* The chain specs, blocks and starting states of the runs.
RunChainSpecs == {dao_scheduled, prague_activated}

RunInputs(cs) ==
    IF cs = dao_scheduled
    THEN {[DefaultInput EXCEPT !.number = DaoBlock, !.gas_limit = 60000,
                               !.beneficiary = COINBASE]}
    ELSE {[DefaultInput EXCEPT !.number = 1, !.gas_limit = 60000, !.beneficiary = COINBASE,
                               !.parent_hash = PARENT_HASH,
                               !.parent_beacon_block_root = Some(ROOT_0x69),
                               !.withdrawals = w] :
            w \in {None, Some(<<Withdrawal(WITHDRAWAL_RECIPIENT, 1)>>)}}

RunAccounts(cs) ==
    IF cs = dao_scheduled
    THEN {NoAccounts,
          (DAO_HARDFORK_ACCOUNTS[1] :> funded_account(5))
              @@ (DAO_HARDFORK_ACCOUNTS[2] :> funded_account(7))}
    ELSE {NoAccounts,
          (BEACON_ROOTS_ADDRESS :> contract_account(BEACON_ROOTS_CODE))
              @@ (HISTORY_STORAGE_ADDRESS :> contract_account(HISTORY_STORAGE_CODE))
              @@ (WITHDRAWAL_RECIPIENT :> funded_account(100))}

\* The transactions: of both types, the one of the hotfix, an impersonated one.
RunTxs ==
    {tx \in Txs : /\ tx.gas_limit = 30000
                  /\ (tx.tx_type = "Eip1559" => (tx.hash = OTHER_TX_HASH /\ tx.gas_price = Some(1)))
                  /\ (tx.hash = HOTFIX_TX_HASH => tx.gas_price = Some(1))}

\* What the EVM answers in these runs.
RunEvmOutcomes(cs, inp, tx) ==
    {evm \in PostEvmOutcomes(cs, inp, tx) :
        evm.tag = "Ok" => evm.logs \in {<<>>, <<Log(MAINNET_DEPOSIT_CONTRACT_ADDRESS, "deposit_a")>>}}

\* What the environment answers before the first transaction in these runs:
\* an error of a system call only where the call is made.
RunPreEnvs(cs, inp) ==
    {env \in PreEnvs :
        /\ env.load_account_ok
        /\ (~is_prague_active_at_timestamp(cs, inp.timestamp) => env.history_call_ok)
        /\ (~is_cancun_active_at_timestamp(cs, inp.timestamp) => env.beacon_call_ok)}

\* A call on the strategy as the history keeps it.
PreExecutionCall(env, d, res) ==
    [step |-> "apply_pre_execution_changes", env |-> env, db_before |-> d, result |-> res]

TransactionCall(tx, evm, overflow_checks, res) ==
    [step |-> "execute_transaction", tx |-> tx, evm |-> evm,
     overflow_checks |-> overflow_checks, result |-> res]

PostExecutionCall(env, res) ==
    [step |-> "apply_post_execution_changes", env |-> env, result |-> res]

\* The calls of a run, each recorded with what it returned.
RecordedPreExecution(env) ==
    /\ ApplyPreExecutionChanges(env)
    /\ calls' = Append(calls, PreExecutionCall(env, db, last'.result))

RecordedTransaction(tx, evm, overflow_checks) ==
    /\ ExecuteTransaction(tx, evm, overflow_checks)
    /\ calls' = Append(calls, TransactionCall(tx, evm, overflow_checks, last'.result))

RecordedPostExecution(env) ==
    /\ ApplyPostExecutionChanges(env)
    /\ calls' = Append(calls, PostExecutionCall(env, last'.result))

\* the run has ended: the block is executed, or a call has failed (the
\* executor makes no further call on the strategy after an error)
RunEnded ==
    /\ calls # <<>>
    /\ IF pc = "execute" THEN calls[Len(calls)].result.tag # "Ok" ELSE TRUE

\* The first run is over and create_strategy makes a strategy for the same
\* block over a state with the content the first run started from.
CreateStrategyAgain ==
    /\ first_run = None
    /\ RunEnded
    /\ first_run' = Some([calls |-> calls, receipts |-> receipts, gas_used |-> gas_used,
                          output |-> output, db |-> db, pc |-> pc])
    /\ db' = calls[1].db_before
    /\ gas_used' = 0
    /\ receipts' = <<>>
    /\ evm_gas_total' = 0
    /\ output' = None
    /\ last' = NoCall
    /\ pc' = "pre"
    /\ calls' = <<>>
    /\ UNCHANGED <<input, evaluations>>

\* The next call of the second run: the call the first run made at this
\* point, the environment (the EVM and the system calls, which are functions
\* of the state and the transaction, and the build) answering as it did.
RepeatCall ==
    /\ is_some(first_run)
    /\ Len(calls) < Len(first_run.val.calls)
    /\ UNCHANGED <<first_run, evaluations>>
    /\ LET c == first_run.val.calls[Len(calls) + 1]
       IN  IF c.step = "apply_pre_execution_changes" THEN RecordedPreExecution(c.env)
           ELSE IF c.step = "execute_transaction"
           THEN RecordedTransaction(c.tx, c.evm, c.overflow_checks)
           ELSE RecordedPostExecution(c.env)

InitRuns ==
    /\ chain_spec \in RunChainSpecs
    /\ input \in RunInputs(chain_spec)
    /\ db \in {[EmptyDb EXCEPT !.accounts = acc] : acc \in RunAccounts(chain_spec)}
    /\ gas_used = 0
    /\ receipts = <<>>
    /\ evm_gas_total = 0
    /\ output = None
    /\ last = NoCall
    /\ pc = "pre"
    /\ header = DefaultHeader
    /\ parent = DefaultHeader
    /\ present_timestamp = 0
    /\ result = NoResult
    /\ chain = <<>>
    /\ SignedIdle
    /\ RecordIdle
    /\ RpcIdle

NextRuns ==
    \/ /\ first_run = None
       /\ ~RunEnded
       /\ \E env \in RunPreEnvs(chain_spec, input) : RecordedPreExecution(env)
       /\ UNCHANGED <<first_run, evaluations, headerVars, signedVars, rpcVars>>
    \/ /\ first_run = None
       /\ ~RunEnded
       /\ \E tx \in RunTxs : \E evm \in RunEvmOutcomes(chain_spec, input, tx) :
            \E overflow_checks \in BuildProfiles :
                RecordedTransaction(tx, evm, overflow_checks)
       /\ UNCHANGED <<first_run, evaluations, headerVars, signedVars, rpcVars>>
    \/ /\ first_run = None
       /\ ~RunEnded
       /\ \E env \in PostEnvs(chain_spec, input) : RecordedPostExecution(env)
       /\ UNCHANGED <<first_run, evaluations, headerVars, signedVars, rpcVars>>
    \/ CreateStrategyAgain /\ UNCHANGED <<headerVars, signedVars, rpcVars>>
    \/ RepeatCall /\ UNCHANGED <<headerVars, signedVars, rpcVars>>

SpecRuns == InitRuns /\ [][NextRuns]_vars

----------------------------------------------------------------------------
(* Blocks executed one after another on the same state *)

\* At most this many blocks are executed in one run.
MaxBlocks == 3

\* Header::hash_slow of block number k: non-zero, different for every block.
block_hash(k) == PARENT_HASH + k

\* ChainSpecBuilder ... cancun_activated().with_fork(Prague, Timestamp(1))
\* (eip_2935_fork_activation_within_window_bounds).
prague_at_one == [cancun_activated EXCEPT !.prague = Some(1)]

\* Prague from genesis, from timestamp 1, never (eip_2935_pre_fork).
HistoryChainSpecs == {prague_activated, prague_at_one, shanghai_activated}

\* The number of the first block of a run: genesis, or the last block
\* before the ring buffer of the history contract is full.
HistoryStarts == {0, HISTORY_SERVE_WINDOW - 1}

HistoryBlockNumbers == UNION {s .. (s + MaxBlocks - 1) : s \in HistoryStarts}

\* create_state_provider_with_block_hashes: the history contract deployed;
\* and a state without it.
HistoryAccounts ==
    {NoAccounts, HISTORY_STORAGE_ADDRESS :> contract_account(HISTORY_STORAGE_CODE)}

\* The storage of the history contract once the blocks 0 .. m - 1, m at
\* most the window, have been executed in order with Prague active from
\* genesis: block k + 1 stored the hash of block k at slot k.
history_storage_after(m) ==
    {<<HISTORY_STORAGE_ADDRESS, k, block_hash(k)>> : k \in 0 .. (m - 2)}

\* The block with the given number on top of its predecessor: block 0 is
\* the genesis header (no parent, zero beacon root).
block_input(number, timestamp) ==
    [DefaultInput EXCEPT
        !.number = number,
        !.timestamp = timestamp,
        !.parent_hash = IF number = 0 THEN 0 ELSE block_hash(number - 1),
        !.parent_beacon_block_root = IF number = 0 THEN Some(0) ELSE Some(ROOT_0x69)]

\* BlockExecutionStrategyFactory::create_strategy for the block that
\* follows the executed one, on the state that block left: a new strategy
\* whose input is taken from the block.
CreateStrategy(timestamp) ==
    /\ pc = "execute"
    /\ receipts = <<>>
    /\ input.number + 1 \in HistoryBlockNumbers
    /\ input' = block_input(input.number + 1, timestamp)
    /\ gas_used' = 0
    /\ receipts' = <<>>
    /\ last' = NoCall
    /\ pc' = "pre"
    /\ UNCHANGED <<db, evm_gas_total, output>>

\* A run starts at genesis on an empty storage, or, with Prague active
\* from genesis and the contract deployed, at block HISTORY_SERVE_WINDOW - 1
\* on the storage the earlier blocks left.
InitHistory ==
    /\ \E s \in HistoryStarts :
          IF s = 0
          THEN /\ chain_spec \in HistoryChainSpecs
               /\ input = block_input(0, 0)
               /\ db \in {[EmptyDb EXCEPT !.accounts = acc] : acc \in HistoryAccounts}
          ELSE /\ chain_spec = prague_activated
               /\ input = block_input(s, 1)
               /\ db = [EmptyDb EXCEPT
                           !.state_clear_flag = TRUE,
                           !.accounts = HISTORY_STORAGE_ADDRESS :>
                                            contract_account(HISTORY_STORAGE_CODE),
                           !.storage = history_storage_after(s)]
    /\ gas_used = 0
    /\ receipts = <<>>
    /\ evm_gas_total = 0
    /\ output = None
    /\ last = NoCall
    /\ pc = "pre"
    /\ header = DefaultHeader
    /\ parent = DefaultHeader
    /\ present_timestamp = 0
    /\ result = NoResult
    /\ chain = <<>>
    /\ SignedIdle
    /\ RecordIdle
    /\ RpcIdle

\* The environments of a run: a system call may fail in the EVM.
HistoryEnvs == {env \in PreEnvs : env.load_account_ok}

NextHistory ==
    \/ \E env \in HistoryEnvs :
          ApplyPreExecutionChanges(env) /\ UNCHANGED <<headerVars, signedVars, recordVars, rpcVars>>
    \/ \E timestamp \in {input.timestamp, 1} :
          CreateStrategy(timestamp) /\ UNCHANGED <<headerVars, signedVars, recordVars, rpcVars>>

SpecHistory == InitHistory /\ [][NextHistory]_vars

----------------------------------------------------------------------------
(* The header validators applied to drawn headers *)

ValidateAgainstParentGasLimit ==
    /\ result = NoResult
    /\ result' = [op |-> "validate_against_parent_gas_limit",
                  res |-> validate_against_parent_gas_limit(header, parent)]
    /\ UNCHANGED <<header, parent, chain_spec, present_timestamp, chain>>

ValidateHeaderWithTotalDifficulty ==
    /\ result = NoResult
    /\ \E total_difficulty \in TotalDifficulties :
          result' = [op |-> "validate_header_with_total_difficulty",
                     total_difficulty |-> total_difficulty,
                     res |-> validate_header_with_total_difficulty(
                                 chain_spec, header, total_difficulty, present_timestamp)]
    /\ UNCHANGED <<header, parent, chain_spec, present_timestamp, chain>>

ValidateHeader ==
    /\ result = NoResult
    /\ result' = [op |-> "validate_header", res |-> validate_header(chain_spec, header)]
    /\ UNCHANGED <<header, parent, chain_spec, present_timestamp, chain>>

InitHeader ==
    /\ \/ /\ header \in GasLimitHeaders /\ parent \in GasLimitParents
          /\ chain_spec \in ChainSpecs /\ present_timestamp \in Clocks
       \/ /\ header \in MergeHeaders /\ parent = DefaultHeader
          /\ chain_spec \in ChainSpecs /\ present_timestamp \in Clocks
       \/ /\ header \in StandaloneHeaders /\ parent = DefaultHeader
          /\ chain_spec \in ForkChainSpecs /\ present_timestamp = 100
    /\ chain = <<>>
    /\ result = NoResult
    /\ SignedIdle
    /\ ExecIdle
    /\ RecordIdle
    /\ RpcIdle

NextHeader ==
    \/ ValidateAgainstParentGasLimit /\ UNCHANGED <<signedVars, execVars, recordVars, rpcVars>>
    \/ ValidateHeaderWithTotalDifficulty /\ UNCHANGED <<signedVars, execVars, recordVars, rpcVars>>
    \/ ValidateHeader /\ UNCHANGED <<signedVars, execVars, recordVars, rpcVars>>

SpecHeader == InitHeader /\ [][NextHeader]_vars

----------------------------------------------------------------------------
(* validate_header_against_parent applied to the headers offered on top of *)
(* a chain: an accepted header becomes the new tip                         *)

\* The longest chain built.
MaxChain == 3

HASH_A == "0x00000000000000000000000000000000000000000000000000000000000000a1"
HASH_B == "0x00000000000000000000000000000000000000000000000000000000000000b2"

ChainForkSpecs == {NoForks, cancun_activated, prague_activated}

\* Blob gas used by the offered headers: four blobs, between the two targets.
OfferedBlobGasUsed == 4 * DATA_GAS_PER_BLOB

\* The header a chain starts from.
ChainStart(cs) ==
    IF cs = NoForks
    THEN [DefaultHeader EXCEPT !.timestamp = 1, !.hash = HASH_A, !.gas_limit = MINIMUM_GAS_LIMIT]
    ELSE [DefaultHeader EXCEPT !.timestamp = 1, !.hash = HASH_A, !.gas_limit = MINIMUM_GAS_LIMIT,
                               !.base_fee_per_gas = Some(1000),
                               !.blob_gas_used = Some(OfferedBlobGasUsed),
                               !.excess_blob_gas = Some(0)]

\* The headers offered on top of a tip: numbers and timestamps around the
\* tip's, either parent hash, gas limits around the minimum, an empty or a
\* full block, and, where the schedule has the fee and blob markets, base
\* fees and excess blob gas around the values recomputed from the tip.
ChainCandidates(cs, tip) ==
    LET fee == calc_next_block_base_fee(tip.gas_used, tip.gas_limit, tip.base_fee_per_gas.val)
        bp == blob_params_at_timestamp(cs, tip.timestamp)
        excess == next_block_excess_blob_gas(bp.val, tip.excess_blob_gas.val, tip.blob_gas_used.val)
        BaseFees == IF cs = NoForks THEN {None} ELSE {None, Some(fee), Some(fee + 1)}
        BlobFields ==
            IF cs = NoForks THEN {<<None, None>>}
            ELSE {<<None, Some(excess)>>, <<Some(OfferedBlobGasUsed), None>>,
                  <<Some(OfferedBlobGasUsed), Some(excess)>>,
                  <<Some(OfferedBlobGasUsed), Some(excess + DATA_GAS_PER_BLOB)>>}
    IN  {[DefaultHeader EXCEPT !.number = n, !.timestamp = t, !.parent_hash = ph, !.hash = hh,
                               !.gas_limit = g, !.gas_used = IF full THEN g ELSE 0,
                               !.base_fee_per_gas = bf,
                               !.blob_gas_used = blob[1], !.excess_blob_gas = blob[2]] :
            n \in {tip.number, tip.number + 1, tip.number + 2},
            t \in {tip.timestamp - 1, tip.timestamp, tip.timestamp + 1},
            ph \in {HASH_A, HASH_B}, hh \in {HASH_A, HASH_B},
            g \in {MINIMUM_GAS_LIMIT - 1, MINIMUM_GAS_LIMIT}, full \in BOOLEAN,
            bf \in BaseFees, blob \in BlobFields}

\* One header is offered on top of the tip and validated against it; it
\* becomes the tip when it is accepted, and the first rejection ends the
\* walk along the offered headers.
ValidateHeaderAgainstParent ==
    /\ Len(chain) < MaxChain
    /\ IF result = NoResult THEN TRUE ELSE result.res = Ok
    /\ \E h \in ChainCandidates(chain_spec, parent) :
          LET res == validate_header_against_parent(chain_spec, h, parent)
          IN  /\ header' = h
              /\ result' = [op |-> "validate_header_against_parent", res |-> res]
              /\ IF res = Ok
                 THEN chain' = Append(chain, h) /\ parent' = h
                 ELSE UNCHANGED <<chain, parent>>
    /\ UNCHANGED <<chain_spec, present_timestamp>>

InitChain ==
    /\ chain_spec \in ChainForkSpecs
    /\ chain = <<ChainStart(chain_spec)>>
    /\ parent = ChainStart(chain_spec)
    /\ header = ChainStart(chain_spec)
    /\ present_timestamp = 0
    /\ result = NoResult
    /\ SignedIdle
    /\ ExecIdle
    /\ RecordIdle
    /\ RpcIdle

NextChain == ValidateHeaderAgainstParent /\ UNCHANGED <<signedVars, execVars, recordVars, rpcVars>>

SpecChain == InitChain /\ [][NextChain]_vars

----------------------------------------------------------------------------
(* The header validators applied a second time to the same header, parent  *)
(* and chain spec, at the same or a later reading of the clock             *)

\* HeaderValidator::validate_header_against_parent on the drawn header and
\* parent.
ValidateDrawnHeaderAgainstParent ==
    /\ result = NoResult
    /\ result' = [op |-> "validate_header_against_parent",
                  res |-> validate_header_against_parent(chain_spec, header, parent)]
    /\ UNCHANGED <<header, parent, chain_spec, present_timestamp, chain>>

\* The caller keeps what the validator returned and validates the same
\* header again; SystemTime::now() has not gone back in between.
EvaluateAgain ==
    /\ result # NoResult
    /\ evaluations = <<>>
    /\ evaluations' = <<[op |-> result.op, res |-> result.res, present_timestamp |-> present_timestamp]>>
    /\ present_timestamp' \in {now \in Clocks : now >= present_timestamp}
    /\ result' = NoResult
    /\ UNCHANGED <<header, parent, chain_spec, chain, calls, first_run>>

InitRepeat ==
    /\ \/ /\ header \in GasLimitHeaders /\ parent \in GasLimitParents
          /\ chain_spec \in ChainSpecs /\ present_timestamp = 100
       \/ /\ header \in MergeHeaders /\ parent = DefaultHeader
          /\ chain_spec \in ChainSpecs /\ present_timestamp \in Clocks
       \/ /\ header \in StandaloneHeaders /\ parent = DefaultHeader
          /\ chain_spec \in ForkChainSpecs /\ present_timestamp = 100
       \/ /\ chain_spec \in ChainForkSpecs /\ parent = ChainStart(chain_spec)
          /\ header \in ChainCandidates(chain_spec, parent) /\ present_timestamp = 100
    /\ chain = <<>>
    /\ result = NoResult
    /\ SignedIdle
    /\ ExecIdle
    /\ RecordIdle
    /\ RpcIdle

NextRepeat ==
    \/ ValidateAgainstParentGasLimit /\ UNCHANGED <<signedVars, execVars, recordVars, rpcVars>>
    \/ ValidateHeaderWithTotalDifficulty /\ UNCHANGED <<signedVars, execVars, recordVars, rpcVars>>
    \/ ValidateHeader /\ UNCHANGED <<signedVars, execVars, recordVars, rpcVars>>
    \/ ValidateDrawnHeaderAgainstParent /\ UNCHANGED <<signedVars, execVars, recordVars, rpcVars>>
    \/ EvaluateAgain /\ UNCHANGED <<signedVars, execVars, rpcVars>>

SpecRepeat == InitRepeat /\ [][NextRepeat]_vars

----------------------------------------------------------------------------
(* Sender recovery applied to drawn signatures *)

IsImpersonatedTx ==
    /\ signer = NoResult
    /\ signer' = [op |-> "is_impersonated_tx", res |-> is_impersonated_tx(signature, gas_price)]
    /\ UNCHANGED <<signature, gas_price>>

RecoverSignerUnchecked ==
    /\ signer = NoResult
    /\ \E ecdsa \in EcdsaOutcomes :
          signer' = [op |-> "recover_signer_unchecked", ecdsa |-> ecdsa,
                     res |-> recover_signer_unchecked(signature, gas_price, ecdsa)]
    /\ UNCHANGED <<signature, gas_price>>

InitSigned ==
    /\ signature \in Signatures
    /\ gas_price \in GasPrices
    /\ signer = NoResult
    /\ HeaderIdle
    /\ ExecIdle
    /\ RecordIdle
    /\ RpcIdle

NextSigned ==
    \/ IsImpersonatedTx /\ UNCHANGED <<headerVars, execVars, recordVars, rpcVars>>
    \/ RecoverSignerUnchecked /\ UNCHANGED <<headerVars, execVars, recordVars, rpcVars>>

SpecSigned == InitSigned /\ [][NextSigned]_vars

----------------------------------------------------------------------------
(* The RPC block conversions (crates/rpc/rpc-types-compat/src/block.rs)    *)

\* The most transactions in a block handed to the conversions.
MaxBlockTxs == 3

\* What the process environment holds for HL_NODE_COMPLIANT: nothing, a
\* value that is valid Unicode (the empty one included), or one that is not.
EnvVars ==
    {[set |-> FALSE],
     [set |-> TRUE, unicode |-> TRUE, value |-> ""],
     [set |-> TRUE, unicode |-> TRUE, value |-> "true"],
     [set |-> TRUE, unicode |-> FALSE]}

\* The transactions of the blocks: Transaction::gas_price() is None for a
\* dynamic-fee transaction and Some(price) otherwise.
RpcTxs == {[hash |-> h, gas_price |-> p] : h \in {HASH_A, HASH_B}, p \in {None, Some(0), Some(1)}}

RpcBlocks == UNION {[1..n -> RpcTxs] : n \in 0..MaxBlockTxs}

\* std::env::var(name): Ok(value) when the variable is set to valid
\* Unicode, Err(NotPresent) when it is not set, Err(NotUnicode) otherwise.
env_var_result(env) ==
    IF ~env.set THEN [tag |-> "NotPresent"]
    ELSE IF ~env.unicode THEN [tag |-> "NotUnicode"]
    ELSE [tag |-> "Ok", value |-> env.value]

\* The mode read with std::env::var_os(..).is_some().
is_in_hl_node_compliant_mode_var_os(env) == env.set

\* is_in_hl_node_compliant_mode: std::env::var("HL_NODE_COMPLIANT").is_ok()
is_in_hl_node_compliant_mode(env) == env_var_result(env).tag = "Ok"

\* The filter closure of both conversions.
hl_node_filter(env, tx) ==
    IF is_in_hl_node_compliant_mode(env) THEN tx.gas_price # Some(0) ELSE TRUE

\* TransactionCompat::fill: the builder's RPC transaction for a
\* transaction and its TransactionInfo, or the builder's error.
fill(tx, tx_info, failing) ==
    IF tx.hash \in failing THEN [tag |-> "Err", hash |-> tx.hash]
    ELSE [tag |-> "Ok", inner |-> tx, hash |-> tx_info.hash, transaction_index |-> tx_info.index]

\* from_block_with_tx_hashes: BlockTransactions::Hashes of the
\* transactions that pass the filter.
from_block_with_tx_hashes(env, blk) ==
    LET kept == SelectSeq(blk, LAMBDA tx : hl_node_filter(env, tx))
    IN  [tag |-> "Ok", kind |-> "Hashes",
         transactions |-> [i \in 1..Len(kept) |-> kept[i].hash]]

\* from_block_full: the transactions that pass the filter, numbered after
\* the filter and filled by the builder; the first error of the builder
\* is returned (collect into Result, then ?).
from_block_full(env, blk, failing) ==
    LET kept == SelectSeq(blk, LAMBDA tx : hl_node_filter(env, tx))
        filled == [i \in 1..Len(kept) |->
                      fill(kept[i], [hash |-> Some(kept[i].hash), index |-> Some(i - 1)], failing)]
        errors == {i \in 1..Len(kept) : filled[i].tag = "Err"}
    IN  IF errors # {}
        THEN [tag |-> "Err", error |-> filled[CHOOSE i \in errors : \A j \in errors : i <= j]]
        ELSE [tag |-> "Ok", kind |-> "Full", transactions |-> filled]

\* from_block
from_block(env, blk, kind, failing) ==
    IF kind = "Hashes" THEN from_block_with_tx_hashes(env, blk)
    ELSE from_block_full(env, blk, failing)

\* The block is converted with one kind of transaction list; failing is
\* the set of transactions the builder refuses.
FromBlock(kind, failing) ==
    /\ response[kind].tag = "NotCalled"
    /\ response' = [response EXCEPT ![kind] = from_block(env_var, block, kind, failing)]
    /\ UNCHANGED <<env_var, block>>

InitRpc ==
    /\ env_var \in EnvVars
    /\ block \in RpcBlocks
    /\ response = [Hashes |-> [tag |-> "NotCalled"], Full |-> [tag |-> "NotCalled"]]
    /\ HeaderIdle
    /\ SignedIdle
    /\ ExecIdle
    /\ RecordIdle

NextRpc ==
    \E kind \in {"Hashes", "Full"} : \E failing \in SUBSET {HASH_A, HASH_B} :
        FromBlock(kind, failing) /\ UNCHANGED <<headerVars, signedVars, execVars, recordVars>>

SpecRpc == InitRpc /\ [][NextRpc]_vars

----------------------------------------------------------------------------
(* Properties: the gas-limit rule against the parent *)

AbsDiff(a, b) == IF a >= b THEN a - b ELSE b - a

GasLimitChecked == result.op = "validate_against_parent_gas_limit"

\* C1: the gas-limit check accepts a child gas limit C against a parent gas
\* limit P if and only if C >= MINIMUM_GAS_LIMIT and
\* |C - P| <= P / GAS_LIMIT_BOUND_DIVISOR.
C1_GasLimitAcceptedIffWithinBound ==
    GasLimitChecked =>
        ((result.res = Ok) <=>
            (/\ header.gas_limit >= MINIMUM_GAS_LIMIT
             /\ AbsDiff(header.gas_limit, parent.gas_limit)
                    <= parent.gas_limit \div GAS_LIMIT_BOUND_DIVISOR))

\* C2: a child gas limit of at least the minimum that differs from the
\* parent's by more than P / GAS_LIMIT_BOUND_DIVISOR is rejected with
\* GasLimitInvalidIncrease (C > P) or GasLimitInvalidDecrease (C < P),
\* each carrying P and C.
C2_GasLimitIncreaseDecreaseErrors ==
    (/\ GasLimitChecked
     /\ header.gas_limit >= MINIMUM_GAS_LIMIT
     /\ AbsDiff(header.gas_limit, parent.gas_limit)
            > parent.gas_limit \div GAS_LIMIT_BOUND_DIVISOR)
    => result.res =
          [tag |-> IF header.gas_limit > parent.gas_limit
                   THEN "GasLimitInvalidIncrease" ELSE "GasLimitInvalidDecrease",
           parent_gas_limit |-> parent.gas_limit,
           child_gas_limit |-> header.gas_limit]

----------------------------------------------------------------------------
(* Properties: execute_transaction *)

Called == last.tag = "call"
Succeeded == Called /\ last.result.tag = "Ok"
LastReceipt == receipts[Len(receipts)]
IsImpersonated(tx) == is_some(is_impersonated_tx(tx.signature, tx.gas_price))

\* C3: execute_transaction fails with
\* TransactionGasLimitMoreThanAvailableBlockGas whenever the transaction's
\* gas limit exceeds block_gas_limit - gas_used_so_far, the error carrying
\* the declared gas limit and that available amount; a transaction whose
\* gas limit is at most the available amount passes this check.
C3_GasLimitPreCheck ==
    Called =>
        LET available == input.gas_limit - last.gas_used_before
        IN  /\ last.tx.gas_limit > available =>
                  last.result = [tag |-> "TransactionGasLimitMoreThanAvailableBlockGas",
                                 transaction_gas_limit |-> last.tx.gas_limit,
                                 block_available_gas |-> available]
            /\ last.tx.gas_limit <= available => last.result.tag \in {"Ok", "EvmError"}

\* C4: the cumulative_gas_used values of the accumulated receipts are
\* non-decreasing in receipt index order.
C4_CumulativeGasNonDecreasing ==
    \A i, j \in 1..Len(receipts) :
        i < j => receipts[i].cumulative_gas_used <= receipts[j].cumulative_gas_used

\* C5: after every successful execute_transaction call, the
\* cumulative_gas_used of the receipt just appended equals the sum of the
\* EVM-reported gas used of all non-impersonated transactions executed so far.
C5_CumulativeGasIsNonSystemSum ==
    Succeeded => LastReceipt.cumulative_gas_used = evm_gas_total

\* C6: executing an impersonated transaction never changes the running
\* gas_used: its receipt carries the cumulative_gas_used of the previous
\* receipt, or 0 if it is the first.
C6_ImpersonatedLeavesGasUsed ==
    [][(/\ Len(receipts') = Len(receipts) + 1
        /\ IsImpersonated(last'.tx))
       => (/\ gas_used' = gas_used
           /\ receipts'[Len(receipts')].cumulative_gas_used =
                 (IF receipts = <<>> THEN 0 ELSE LastReceipt.cumulative_gas_used))]_vars

----------------------------------------------------------------------------
(* Properties: is_impersonated_tx *)

\* The big-endian chunks of a U256, and the address its low 160 bits spell.
U256_be(x) == [i \in 1..U256_CHUNKS |-> (x \div (ChunkRadix ^ (U256_CHUNKS - i))) % ChunkRadix]
Low160Address(x) ==
    [i \in 1..U160_CHUNKS |-> U256_be(x)[U256_CHUNKS - U160_CHUNKS + i]]

ImpersonationChecked == signer.op = "is_impersonated_tx"
MatchesPattern == signature.r = 1 /\ signature.v = TRUE /\ gas_price = Some(0)

\* C7 (as stated): for every signature classified as impersonated, the
\* address returned is the low 160 bits of s, for every value of s.
C7_AddressIsLow160BitsOfS ==
    (ImpersonationChecked /\ is_some(signer.res))
        => signer.res.val = Low160Address(signature.s)

\* C7 (amended): for every signature classified as impersonated, the
\* address returned is the low 160 bits of s for every s other than 1, and
\* NATIVE_TOKEN_SYSTEM_ADDRESS (0x2222...2222) for s = 1.
C7_AddressIsLow160BitsOfSUnlessOne ==
    (ImpersonationChecked /\ is_some(signer.res))
        => signer.res.val = IF signature.s = 1 THEN NATIVE_TOKEN_SYSTEM_ADDRESS
                            ELSE Low160Address(signature.s)

\* An impersonated signature whose s has bits above the low 160, so that
\* the reduction changes it.
C7_Witness ==
    /\ ImpersonationChecked
    /\ is_some(signer.res)
    /\ signature.s = 3 * (U160_MAX + 1) + 2
    /\ signer.res.val = Low160Address(2)

\* C8: is_impersonated_tx returns Some address if and only if r == 1, v is
\* set and the gas price is Some(0); otherwise (an absent gas price
\* included) it returns None and recover_signer_unchecked returns what the
\* normal signature recovery returns.
C8_ImpersonatedIffPattern ==
    /\ ImpersonationChecked => (is_some(signer.res) <=> MatchesPattern)
    /\ signer.op = "recover_signer_unchecked" =>
          IF MatchesPattern
          THEN signer.res.tag = "Ok" /\ signer.res.by = "impersonation"
          ELSE signer.res = signer.ecdsa

\* The signature pattern with an absent gas price: recovered by ECDSA.
C8_Witness ==
    /\ signer.op = "recover_signer_unchecked"
    /\ signature.r = 1 /\ signature.v = TRUE /\ gas_price = None
    /\ signer.res = signer.ecdsa
    /\ signer.res.tag = "Ok"

----------------------------------------------------------------------------
(* Properties: failures of execute_transaction *)

PreCheckFailed == last.result.tag = "TransactionGasLimitMoreThanAvailableBlockGas"
ExecutionFailedInEvm == Called /\ last.evm.tag = "Ok" /\ ~last.evm.is_success

\* An execution-level failure is recorded with success = false, the call
\* returns Ok and the strategy stays usable.
FailureIsRecorded ==
    ExecutionFailedInEvm =>
        /\ last.result.tag = "Ok"
        /\ receipts # <<>>
        /\ LastReceipt.success = FALSE
        /\ pc = "execute"

\* C9 (as stated): an execution-level failure is recorded as a receipt with
\* success = false and execute_transaction returns Ok; the only failure of
\* execute_transaction is the gas-limit-exceeds-available pre-check.
C9_OnlyPreCheckAborts ==
    /\ FailureIsRecorded
    /\ (Called /\ last.result.tag # "Ok") => PreCheckFailed

\* C9 (amended): an execution-level failure is recorded as a receipt with
\* success = false and execute_transaction returns Ok; execute_transaction
\* returns an error in exactly two cases: the gas-limit pre-check fails, or
\* the EVM's transact call itself returns an error.
C9_PreCheckOrEvmErrorAborts ==
    /\ FailureIsRecorded
    /\ (Called /\ last.result.tag \notin {"Ok", "panic"}) =>
          \/ PreCheckFailed /\ last.evm = NotCalled
          \/ last.result.tag = "EvmError" /\ last.evm.tag = "Err"
    /\ (Called /\ last.evm.tag = "Err") => last.result.tag = "EvmError"
    /\ Succeeded => LastReceipt.success = last.evm.is_success

\* A transaction failed inside the EVM, was recorded as unsuccessful, and
\* a later transaction was executed successfully after it.
C9_Witness ==
    /\ Len(receipts) = 2
    /\ receipts[1].success = FALSE
    /\ receipts[2].success = TRUE
    /\ Succeeded

----------------------------------------------------------------------------
(* Properties: the nonce rule after the proof-of-stake transition *)

TotalDifficultyChecked == result.op = "validate_header_with_total_difficulty"
PostMerge == is_some(chain_spec.paris) /\ header.number >= chain_spec.paris.val
ExtraDataValid == header.extra_data_len <= MAXIMUM_EXTRA_DATA_SIZE

\* C10 (as stated): post-transition, the nonce rule rejects only a nonce
\* that is present and non-zero: a header with no nonce, zero difficulty,
\* the empty-ommers hash and valid extra-data passes, and a header with a
\* present non-zero nonce fails with TheMergeNonceIsNotZero.
C10_NonceIfPresentMustBeZero ==
    (TotalDifficultyChecked /\ PostMerge /\ header.difficulty = 0) =>
        /\ result.res.tag = "TheMergeNonceIsNotZero"
              <=> (is_some(header.nonce) /\ header.nonce.val # 0)
        /\ (is_none(header.nonce) /\ header.ommers_hash = EMPTY_OMMER_ROOT_HASH /\ ExtraDataValid)
              => result.res = Ok

\* C10 (amended): post-transition, the nonce rule accepts only a nonce
\* that is present and zero: a header with zero difficulty and no nonce, or
\* with a present non-zero nonce, fails with TheMergeNonceIsNotZero; a
\* header with nonce zero, zero difficulty, the empty-ommers hash and valid
\* extra-data passes.
C10_NonceMustBePresentAndZero ==
    (TotalDifficultyChecked /\ PostMerge /\ header.difficulty = 0) =>
        /\ result.res.tag = "TheMergeNonceIsNotZero" <=> header.nonce # Some(0)
        /\ (header.nonce = Some(0) /\ header.ommers_hash = EMPTY_OMMER_ROOT_HASH /\ ExtraDataValid)
              => result.res = Ok

\* A post-transition header without a nonce, otherwise valid, rejected by the nonce rule.
C10_Witness ==
    /\ TotalDifficultyChecked /\ PostMerge
    /\ header.difficulty = 0 /\ is_none(header.nonce)
    /\ header.ommers_hash = EMPTY_OMMER_ROOT_HASH /\ ExtraDataValid
    /\ result.res.tag = "TheMergeNonceIsNotZero"


----------------------------------------------------------------------------
(* Properties: validate_header_with_total_difficulty on both sides of the  *)
(* proof-of-stake transition                                               *)

\* C11: post-transition, validate_header_with_total_difficulty fails
\* whenever the difficulty is non-zero (TheMergeDifficultyIsNotZero) or the
\* ommers hash is not EMPTY_OMMER_ROOT_HASH (TheMergeOmmerRootIsNotEmpty,
\* the error returned once the difficulty and nonce rules before it are
\* met), and succeeds when difficulty = 0, nonce = 0, the ommers hash is
\* empty and extra-data is within the limit.
C11_PostMergeDifficultyAndOmmers ==
    (TotalDifficultyChecked /\ PostMerge) =>
        /\ header.difficulty # 0 => result.res = [tag |-> "TheMergeDifficultyIsNotZero"]
        /\ header.ommers_hash # EMPTY_OMMER_ROOT_HASH =>
              /\ result.res # Ok
              /\ (header.difficulty = 0 /\ header.nonce = Some(0))
                    => result.res = [tag |-> "TheMergeOmmerRootIsNotEmpty"]
        /\ (/\ header.difficulty = 0 /\ header.nonce = Some(0)
            /\ header.ommers_hash = EMPTY_OMMER_ROOT_HASH /\ ExtraDataValid)
              => result.res = Ok

\* A post-transition header rejected for its ommers hash alone.
C11_Witness ==
    /\ TotalDifficultyChecked /\ PostMerge
    /\ header.difficulty = 0 /\ header.nonce = Some(0)
    /\ header.ommers_hash = OTHER_OMMERS_HASH
    /\ result.res = [tag |-> "TheMergeOmmerRootIsNotEmpty"]

\* C12: before the transition (or when the chain spec cannot decide it by
\* block number) no difficulty, nonce or ommers check is applied: the
\* header is accepted exactly when its timestamp is at most
\* now + ALLOWED_FUTURE_BLOCK_TIME_SECONDS and its extra-data is within the
\* limit.
C12_PreMergeAcceptedIffNotFuture ==
    (TotalDifficultyChecked /\ ~PostMerge) =>
        ((result.res = Ok) <=>
            (/\ header.timestamp <= present_timestamp + ALLOWED_FUTURE_BLOCK_TIME_SECONDS
             /\ ExtraDataValid))

\* A pre-transition header that would break every post-transition rule,
\* with the latest timestamp the tolerance allows, accepted.
C12_Witness ==
    /\ TotalDifficultyChecked /\ ~PostMerge
    /\ header.difficulty # 0 /\ header.nonce # Some(0)
    /\ header.ommers_hash # EMPTY_OMMER_ROOT_HASH
    /\ header.timestamp = present_timestamp + ALLOWED_FUTURE_BLOCK_TIME_SECONDS
    /\ result.res = Ok

FutureTimestampRejected ==
    /\ TotalDifficultyChecked /\ ~PostMerge
    /\ header.timestamp > present_timestamp + ALLOWED_FUTURE_BLOCK_TIME_SECONDS

\* C13 (as stated): a pre-transition header whose timestamp is beyond the
\* tolerance is rejected with an error that reports the offending header
\* timestamp and the tolerance.
C13_ErrorReportsTimestampAndTolerance ==
    FutureTimestampRejected =>
        /\ result.res.tag = "TimestampIsInFuture"
        /\ result.res.timestamp = header.timestamp
        /\ result.res.present_timestamp = ALLOWED_FUTURE_BLOCK_TIME_SECONDS

\* C13 (amended): a pre-transition header whose timestamp is beyond the
\* tolerance is rejected with TimestampIsInFuture, which reports the
\* offending header timestamp and the present timestamp (the clock reading
\* the header was compared with), not the tolerance.
C13_ErrorReportsTimestampAndPresentTimestamp ==
    FutureTimestampRejected =>
        result.res = [tag |-> "TimestampIsInFuture", timestamp |-> header.timestamp,
                      present_timestamp |-> present_timestamp]

\* A pre-transition header one second beyond the tolerance, rejected.
C13_Witness ==
    /\ FutureTimestampRejected
    /\ header.timestamp = present_timestamp + ALLOWED_FUTURE_BLOCK_TIME_SECONDS + 1
    /\ result.res.tag = "TimestampIsInFuture"

----------------------------------------------------------------------------
(* Properties: the minimum gas limit *)

\* C15: validate_against_parent_gas_limit rejects every child whose gas
\* limit is below MINIMUM_GAS_LIMIT with GasLimitInvalidMinimum carrying the
\* child's gas limit, whatever the parent's gas limit is: no
\* increase/decrease error is reported in its place.
C15_BelowMinimumRejectedWhateverParent ==
    (GasLimitChecked /\ header.gas_limit < MINIMUM_GAS_LIMIT) =>
        result.res = [tag |-> "GasLimitInvalidMinimum", child_gas_limit |-> header.gas_limit]

\* A child below the minimum, further below its parent than the
\* increase/decrease bound allows, rejected for the minimum.
C15_Witness ==
    /\ GasLimitChecked
    /\ header.gas_limit = MINIMUM_GAS_LIMIT - 1
    /\ parent.gas_limit - header.gas_limit > parent.gas_limit \div GAS_LIMIT_BOUND_DIVISOR
    /\ result.res.tag = "GasLimitInvalidMinimum"


----------------------------------------------------------------------------
(* Properties: the standalone header check *)

HeaderChecked == result.op = "validate_header"

ShanghaiActive == is_some(chain_spec.shanghai) /\ header.timestamp >= chain_spec.shanghai.val
CancunActive == is_some(chain_spec.cancun) /\ header.timestamp >= chain_spec.cancun.val
PragueActive == is_some(chain_spec.prague) /\ header.timestamp >= chain_spec.prague.val

GasUsedWithinLimit == header.gas_used <= header.gas_limit
BaseFeeValid ==
    ~(/\ is_some(chain_spec.london) /\ header.number >= chain_spec.london.val
      /\ is_none(header.base_fee_per_gas))
WithdrawalsRootConsistent == is_some(header.withdrawals_root) <=> ShanghaiActive
BlobFieldsPresent ==
    {is_some(header.blob_gas_used), is_some(header.excess_blob_gas),
     is_some(header.parent_beacon_block_root)}
BlobFieldsConsistent == BlobFieldsPresent = {CancunActive}
RequestsHashConsistent == is_some(header.requests_hash) <=> PragueActive

\* C14 (as stated): a header whose gas limit is below MINIMUM_GAS_LIMIT
\* fails the standalone validate_header check, whatever its other fields are.
C14_BelowMinimumFailsStandalone ==
    (HeaderChecked /\ header.gas_limit < MINIMUM_GAS_LIMIT) => result.res # Ok

\* C14 (amended): validate_header does not reject a header for a gas limit
\* below MINIMUM_GAS_LIMIT: such a header is accepted exactly when its gas
\* used is within its gas limit and its base-fee, withdrawals, blob and
\* requests fields agree with the fork schedule; the minimum is enforced by
\* the parent-relative gas-limit check (GasLimitInvalidMinimum).
C14_BelowMinimumNotCheckedStandalone ==
    /\ (HeaderChecked /\ header.gas_limit < MINIMUM_GAS_LIMIT) =>
          ((result.res = Ok) <=>
              (/\ GasUsedWithinLimit /\ BaseFeeValid /\ WithdrawalsRootConsistent
               /\ BlobFieldsConsistent /\ RequestsHashConsistent))
    /\ (GasLimitChecked /\ header.gas_limit < MINIMUM_GAS_LIMIT) =>
          result.res.tag = "GasLimitInvalidMinimum"

\* A header with gas limit MINIMUM_GAS_LIMIT - 1 accepted by validate_header.
C14_Witness ==
    /\ HeaderChecked
    /\ header.gas_limit = MINIMUM_GAS_LIMIT - 1
    /\ result.res = Ok

\* C16: validate_header succeeds only if the withdrawals root is present
\* exactly when Shanghai is active at the header's timestamp; with the gas
\* and base-fee checks before it passed, active and absent yields
\* WithdrawalsRootMissing and inactive and present yields
\* WithdrawalsRootUnexpected; a header with the fork active and the root of
\* an empty withdrawals list (its other fields valid) is valid.
C16_WithdrawalsRootIffShanghai ==
    HeaderChecked =>
        /\ result.res = Ok => WithdrawalsRootConsistent
        /\ (GasUsedWithinLimit /\ BaseFeeValid) =>
              /\ (ShanghaiActive /\ is_none(header.withdrawals_root))
                    => result.res = [tag |-> "WithdrawalsRootMissing"]
              /\ (~ShanghaiActive /\ is_some(header.withdrawals_root))
                    => result.res = [tag |-> "WithdrawalsRootUnexpected"]
        /\ (/\ ShanghaiActive /\ header.withdrawals_root = Some(EMPTY_WITHDRAWALS_ROOT)
            /\ GasUsedWithinLimit /\ BaseFeeValid /\ BlobFieldsConsistent /\ RequestsHashConsistent)
              => result.res = Ok

\* The header of the test shanghai_block_zero_withdrawals, accepted.
C16_Witness ==
    /\ HeaderChecked
    /\ chain_spec = shanghai_activated
    /\ \E t \in ForkTimestamps :
          header = [DefaultHeader EXCEPT !.base_fee_per_gas = Some(1337),
                                         !.withdrawals_root = Some(EMPTY_WITHDRAWALS_ROOT),
                                         !.timestamp = t]
    /\ result.res = Ok

\* C17: once Cancun is active at the header's timestamp validate_header
\* requires blob gas used, excess blob gas and parent beacon block root;
\* before activation it rejects a header carrying any of the three, with
\* BlobGasUsedUnexpected, ExcessBlobGasUnexpected or
\* ParentBeaconBlockRootUnexpected for the first of them that is present
\* (the gas, base-fee and withdrawals checks before them passed).
C17_BlobFieldsIffCancun ==
    HeaderChecked =>
        /\ result.res = Ok => BlobFieldsConsistent
        /\ (GasUsedWithinLimit /\ BaseFeeValid /\ WithdrawalsRootConsistent /\ ~CancunActive) =>
              /\ is_some(header.blob_gas_used)
                    => result.res = [tag |-> "BlobGasUsedUnexpected"]
              /\ (is_none(header.blob_gas_used) /\ is_some(header.excess_blob_gas))
                    => result.res = [tag |-> "ExcessBlobGasUnexpected"]
              /\ (/\ is_none(header.blob_gas_used) /\ is_none(header.excess_blob_gas)
                  /\ is_some(header.parent_beacon_block_root))
                    => result.res = [tag |-> "ParentBeaconBlockRootUnexpected"]

\* A header carrying only a parent beacon block root before Cancun, rejected.
C17_Witness ==
    /\ HeaderChecked /\ ~CancunActive
    /\ is_none(header.blob_gas_used) /\ is_none(header.excess_blob_gas)
    /\ is_some(header.parent_beacon_block_root)
    /\ result.res = [tag |-> "ParentBeaconBlockRootUnexpected"]

\* C18: validate_header accepts only a header whose requests hash is
\* present exactly when Prague is active at its timestamp; with the checks
\* before it passed, active and absent yields RequestsHashMissing and
\* inactive and present yields RequestsHashUnexpected.
C18_RequestsHashIffPrague ==
    HeaderChecked =>
        /\ result.res = Ok => RequestsHashConsistent
        /\ (/\ GasUsedWithinLimit /\ BaseFeeValid /\ WithdrawalsRootConsistent
            /\ BlobFieldsConsistent) =>
              /\ (PragueActive /\ is_none(header.requests_hash))
                    => result.res = [tag |-> "RequestsHashMissing"]
              /\ (~PragueActive /\ is_some(header.requests_hash))
                    => result.res = [tag |-> "RequestsHashUnexpected"]

\* A Prague header without a requests hash, otherwise valid, rejected.
C18_Witness ==
    /\ HeaderChecked /\ PragueActive
    /\ is_none(header.requests_hash)
    /\ result.res = [tag |-> "RequestsHashMissing"]


----------------------------------------------------------------------------
(* Properties: a header against its parent *)

AgainstParentChecked == result.op = "validate_header_against_parent"

FollowsParent(h, p) ==
    /\ h.number = p.number + 1
    /\ h.parent_hash = p.hash
    /\ h.timestamp > p.timestamp

\* C19: validate_header_against_parent accepts (header, parent) only if
\* header.number = parent.number + 1, header.parent_hash is the parent's
\* sealed hash and header.timestamp > parent.timestamp; hence in a chain of
\* headers each accepted against its predecessor, block numbers increase by
\* exactly one and timestamps are strictly increasing.
C19_AcceptedOnlyOnTopOfParent ==
    /\ (AgainstParentChecked /\ result.res = Ok) =>
          /\ header = chain[Len(chain)]
          /\ FollowsParent(header, chain[Len(chain) - 1])
    /\ \A i \in 2..Len(chain) : FollowsParent(chain[i], chain[i - 1])
    /\ \A i, j \in 1..Len(chain) :
          i < j => /\ chain[j].number = chain[i].number + (j - i)
                   /\ chain[j].timestamp > chain[i].timestamp

\* A chain of three headers, the last two accepted against their predecessors.
C19_Witness ==
    /\ AgainstParentChecked /\ result.res = Ok
    /\ Len(chain) = 3
    /\ chain[3].number = chain[1].number + 2


----------------------------------------------------------------------------
(* Properties: the beacon-root step of pre-execution *)

PreExecuted == last.tag = "apply_pre_execution_changes"

CancunActiveAtBlock == is_some(chain_spec.cancun) /\ input.timestamp >= chain_spec.cancun.val

\* The environment did not fail: both system calls ran without an EVM
\* error and the account load succeeded.
EnvironmentOk == last.env = [history_call_ok |-> TRUE, beacon_call_ok |-> TRUE, load_account_ok |-> TRUE]

----------------------------------------------------------------------------
(* Properties: the genesis block and a missing beacon-root contract *)

GenesisBlock == input.number = 0

\* the storage entries of an address
storage_of(d, address) == {w \in d.storage : w[1] = address}

\* C21: pre-execution of the genesis block (number 0) with Cancun active
\* fails when the parent beacon block root is non-zero; with the zero root
\* it succeeds without making the beacon-root system call: the storage is
\* untouched and the transition set stays empty.
C21_GenesisRootMustBeZero ==
    (/\ PreExecuted /\ CancunActiveAtBlock /\ GenesisBlock
     /\ is_some(input.parent_beacon_block_root)) =>
        IF input.parent_beacon_block_root.val # 0
        THEN /\ last.result.tag = "CancunGenesisParentBeaconBlockRootNotZero"
             /\ pc = "failed"
        ELSE /\ last.result = Ok
             /\ pc = "execute"
             /\ db.storage = last.db_before.storage
             /\ db.transitions = {}

\* The genesis block with the zero root on the schedule with Cancun active
\* from genesis, the beacon-root contract deployed and an environment in
\* which a system call would fail: pre-execution succeeds and nothing is
\* written.
C21_Witness ==
    /\ PreExecuted /\ chain_spec = cancun_activated /\ GenesisBlock
    /\ input.timestamp = 0
    /\ input.parent_beacon_block_root = Some(0)
    /\ has_code(last.db_before, BEACON_ROOTS_ADDRESS)
    /\ ~last.env.beacon_call_ok
    /\ last.result = Ok /\ pc = "execute"
    /\ db.storage = {} /\ db.transitions = {}

\* The beacon-root step was a silent no-op: no error, nothing written to
\* the beacon-root contract, and the transactions can be executed.
BeaconRootStepSilent ==
    /\ last.result = Ok
    /\ pc = "execute"
    /\ storage_of(db, BEACON_ROOTS_ADDRESS) = {}
    /\ BEACON_ROOTS_ADDRESS \notin db.transitions

BeaconRootPresentWithoutCode ==
    /\ PreExecuted /\ CancunActiveAtBlock /\ EnvironmentOk
    /\ is_some(input.parent_beacon_block_root)
    /\ ~has_code(last.db_before, BEACON_ROOTS_ADDRESS)

----------------------------------------------------------------------------
(* Properties: the one-time deployment *)

\* the account's info, or the default one
account_info_or_default(d, address) ==
    IF is_some(basic(d, address)) THEN basic(d, address).val ELSE AccountInfo_default

DeploymentBlock == input.number = COREWRITER_ENABLED_BLOCK_NUMBER

\* C24: the deployment hook changes the accounts only at block 7578300:
\* there the account at 0x3333...3333 takes the fixed bytecode and its
\* hash and keeps its balance and nonce, and no other account changes; at
\* every other block number no account changes; applying the hook again
\* to the state it left changes no account.
C24_DeploysOnceAtDesignatedBlock ==
    (PreExecuted /\ last.result = Ok) =>
        LET before == account_info_or_default(last.db_before, COREWRITER_CONTRACT_ADDRESS)
            again == deploy_corewriter_contract(db, input.number, TRUE)
        IN  /\ IF DeploymentBlock
               THEN /\ basic(db, COREWRITER_CONTRACT_ADDRESS) =
                          Some([balance |-> before.balance, nonce |-> before.nonce,
                                code_hash |-> hash_slow(COREWRITER_BYTECODE),
                                code |-> COREWRITER_BYTECODE])
                    /\ \A a \in DOMAIN last.db_before.accounts \ {COREWRITER_CONTRACT_ADDRESS} :
                          basic(db, a) = basic(last.db_before, a)
                    /\ DOMAIN db.accounts =
                          DOMAIN last.db_before.accounts \cup {COREWRITER_CONTRACT_ADDRESS}
               ELSE /\ db.accounts = last.db_before.accounts
                    /\ COREWRITER_CONTRACT_ADDRESS \notin db.transitions
            /\ again.res = Ok
            /\ again.db.accounts = db.accounts

\* Block 7578300 with a funded account with another code at the address:
\* the code is replaced, the balance 7 and the nonce 1 are kept.
C24_Witness ==
    /\ PreExecuted /\ last.result = Ok /\ DeploymentBlock
    /\ basic(last.db_before, COREWRITER_CONTRACT_ADDRESS) =
          Some([contract_account(OTHER_BYTECODE) EXCEPT !.balance = 7])
    /\ basic(db, COREWRITER_CONTRACT_ADDRESS) =
          Some([balance |-> 7, nonce |-> 1, code_hash |-> hash_slow(COREWRITER_BYTECODE),
                code |-> COREWRITER_BYTECODE])
    /\ COREWRITER_CONTRACT_ADDRESS \in db.transitions


----------------------------------------------------------------------------
(* Properties: the block-hash history contract *)

\* Prague was active for every block executed so far, the history contract
\* is deployed, and pre-execution of the block succeeded.
ExecutedUnderPrague ==
    /\ PreExecuted /\ last.result = Ok
    /\ is_prague_active_at_timestamp(chain_spec, 0)
    /\ has_code(db, HISTORY_STORAGE_ADDRESS)

\* the slot of a block in the ring buffer
history_slot(k) == k % HISTORY_SERVE_WINDOW

\* the history contract holds the hashes of the blocks lo .. hi at their slots
HistoryHolds(lo, hi) ==
    {<<HISTORY_STORAGE_ADDRESS, history_slot(k), block_hash(k)>> : k \in lo .. hi}
        \subseteq db.storage

HistorySlotUnwritten(k) ==
    ~\E w \in db.storage : w[1] = HISTORY_STORAGE_ADDRESS /\ w[2] = history_slot(k)

\* Nothing is written to the history contract by the genesis block or by a
\* block before Prague.
NothingWrittenBeforePragueOrAtGenesis ==
    (PreExecuted /\ (GenesisBlock \/ ~is_prague_active_at_timestamp(chain_spec, input.timestamp)))
        => storage_of(db, HISTORY_STORAGE_ADDRESS)
              = storage_of(last.db_before, HISTORY_STORAGE_ADDRESS)

\* C23 (as stated): with Prague active, after the blocks 0 .. n have been
\* executed in order the slot of every block k < n holds the hash of block
\* k and the slot of block n is unwritten; the genesis block and a block
\* before Prague write nothing to the history contract.
C23_HistoryHoldsEveryEarlierBlock ==
    /\ ExecutedUnderPrague =>
          (HistoryHolds(0, input.number - 1) /\ HistorySlotUnwritten(input.number))
    /\ NothingWrittenBeforePragueOrAtGenesis

\* C23 (amended): the same for the blocks the ring buffer has room for:
\* after block n the slots of the last HISTORY_SERVE_WINDOW blocks before n
\* hold their hashes, and the slot of block n is unwritten while
\* n < HISTORY_SERVE_WINDOW; from then on it holds the hash of block
\* n - HISTORY_SERVE_WINDOW.
C23_HistoryHoldsLastWindow ==
    /\ ExecutedUnderPrague =>
          LET n == input.number
              lo == IF n > HISTORY_SERVE_WINDOW THEN n - HISTORY_SERVE_WINDOW ELSE 0
          IN  /\ HistoryHolds(lo, n - 1)
              /\ IF n < HISTORY_SERVE_WINDOW
                 THEN HistorySlotUnwritten(n)
                 ELSE storage(db, HISTORY_STORAGE_ADDRESS, history_slot(n))
                        = block_hash(n - HISTORY_SERVE_WINDOW)
    /\ NothingWrittenBeforePragueOrAtGenesis

\* eip_2935_state_transition_inside_fork: after the blocks 0, 1, 2 the
\* slots 0 and 1 hold the hashes of the blocks 0 and 1, slot 2 is unwritten.
C23_Witness ==
    /\ ExecutedUnderPrague /\ input.number = 2
    /\ storage(db, HISTORY_STORAGE_ADDRESS, 0) = block_hash(0)
    /\ storage(db, HISTORY_STORAGE_ADDRESS, 1) = block_hash(1)
    /\ storage(db, HISTORY_STORAGE_ADDRESS, 2) = 0


----------------------------------------------------------------------------
(* Properties: the hash-keyed gas-used override *)

Listed(tx) == tx.hash = HOTFIX_TX_HASH

\* C25: the override replaces the gas used of the listed transaction by
\* 22768 and touches nothing else: after a successful call the running
\* total is the total before the call plus 22768 for the listed
\* transaction, plus the EVM-reported gas for a transaction that is not
\* listed (nothing if that one is impersonated); the gas accumulated
\* before a listed transaction stays in the total and in its receipt.
C25_OverrideReplacesOnlyListedGas ==
    Succeeded =>
        LET tx == last.tx
            before == last.gas_used_before
        IN  /\ (Listed(tx) /\ ~IsImpersonated(tx)) => gas_used = before + HOTFIX_GAS_USED
            /\ (~Listed(tx) /\ ~IsImpersonated(tx)) => gas_used = before + last.evm.gas_used
            /\ (~Listed(tx) /\ IsImpersonated(tx)) => gas_used = before
            /\ gas_used >= before
            /\ LastReceipt.cumulative_gas_used = gas_used

----------------------------------------------------------------------------
(* Post-execution validation *)

\* calculate_receipt_root: a commitment to the receipts, different for
\* different lists; Header::default() carries the one of the empty list.
calculate_receipt_root(rcpts) == <<"receipts_root", rcpts>>

\* The logs bloom of the receipts: what was logged, without order or
\* multiplicity.
receipts_logs_bloom(rcpts) ==
    {<<all_logs(rcpts)[i].address, all_logs(rcpts)[i].data>> : i \in 1..Len(all_logs(rcpts))}

\* Requests::requests_hash: a commitment to the sections
requests_hash(requests) == <<"requests_hash", requests>>

\* reth_ethereum_consensus::validation::validate_block_post_execution: the
\* gas used according to the receipts (the cumulative gas of the last one,
\* 0 without receipts), the receipts root, the logs bloom and, once
\* Prague is active, the requests hash are compared with the header.
validation_validate_block_post_execution(cs, h, rcpts, requests) ==
    LET cumulative_gas_used ==
            IF rcpts = <<>> THEN 0 ELSE rcpts[Len(rcpts)].cumulative_gas_used
    IN  IF h.gas_used # cumulative_gas_used
        THEN [tag |-> "BlockGasUsed", got |-> cumulative_gas_used, expected |-> h.gas_used]
        ELSE IF calculate_receipt_root(rcpts) # h.receipts_root
        THEN [tag |-> "BodyReceiptRootDiff"]
        ELSE IF receipts_logs_bloom(rcpts) # h.logs_bloom
        THEN [tag |-> "BodyBloomLogDiff"]
        ELSE IF is_prague_active_at_timestamp(cs, h.timestamp)
        THEN IF is_none(h.requests_hash) THEN [tag |-> "RequestsHashMissing"]
             ELSE IF requests_hash(requests) # h.requests_hash.val
             THEN [tag |-> "BodyRequestsHashDiff"]
             ELSE Ok
        ELSE Ok

\* The validation handed no receipts.
validate_block_post_execution_without_receipts(cs, h, execution_result) ==
    validation_validate_block_post_execution(cs, h, <<>>, execution_result.requests)

\* FullConsensus::validate_block_post_execution (lib.rs:70-76): the
\* receipts and the requests of the result are handed on, its gas_used is not.
validate_block_post_execution(cs, h, execution_result) ==
    validation_validate_block_post_execution(cs, h, execution_result.receipts,
                                             execution_result.requests)

\* A receipt of a legacy transaction
Receipt(cumulative, logs) ==
    [tx_type |-> "Legacy", success |-> TRUE, cumulative_gas_used |-> cumulative, logs |-> logs]

\* The receipts of the results: of an empty block, of one transaction, of
\* two transactions the second of which logged a deposit.
PostValidationReceipts ==
    {<<>>,
     <<Receipt(21000, <<>>)>>,
     <<Receipt(21000, <<>>),
       Receipt(51000, <<Log(MAINNET_DEPOSIT_CONTRACT_ADDRESS, "deposit_a")>>)>>}

PostValidationRequests ==
    {<<>>, <<[type |-> DEPOSIT_REQUEST_TYPE, data |-> <<"deposit_a">>]>>}

PostValidationGasUsed == {0, 21000, 51000}

\* BlockExecutionResult: three public fields, any combination of which
\* can be handed to validate_block_post_execution.
PostValidationResults ==
    [receipts : PostValidationReceipts, requests : PostValidationRequests,
     gas_used : PostValidationGasUsed]

\* The headers of the blocks validated: what the header commits to.
PostValidationHeaders ==
    {[DefaultHeader EXCEPT !.gas_used = g, !.receipts_root = calculate_receipt_root(r),
                           !.logs_bloom = receipts_logs_bloom(b), !.requests_hash = rh] :
        g \in PostValidationGasUsed, r \in PostValidationReceipts,
        b \in PostValidationReceipts,
        rh \in {None} \cup {Some(requests_hash(q)) : q \in PostValidationRequests}}

InitValidatePost ==
    /\ header \in PostValidationHeaders
    /\ parent = DefaultHeader
    /\ chain_spec \in {shanghai_activated, prague_activated}
    /\ present_timestamp = 0
    /\ result = NoResult
    /\ chain = <<>>
    /\ SignedIdle
    /\ input = DefaultInput
    /\ db = EmptyDb
    /\ gas_used = 0
    /\ receipts = <<>>
    /\ evm_gas_total = 0
    /\ output \in {Some(r) : r \in PostValidationResults}
    /\ last = NoCall
    /\ pc = "idle"
    /\ RecordIdle
    /\ RpcIdle

\* One call of validate_block_post_execution(block, result).
ValidateBlockPostExecution ==
    /\ result = NoResult
    /\ is_some(output)
    /\ result' = [op |-> "validate_block_post_execution",
                  res |-> validate_block_post_execution(chain_spec, header, output.val)]
    /\ UNCHANGED <<header, parent, chain_spec, present_timestamp, chain>>

NextValidatePost == ValidateBlockPostExecution /\ UNCHANGED <<signedVars, execVars, recordVars, rpcVars>>

SpecValidatePost == InitValidatePost /\ [][NextValidatePost]_vars

----------------------------------------------------------------------------
(* The end of the block *)

\* apply_post_execution_changes has returned a BlockExecutionResult
PostExecuted ==
    /\ last.tag = "apply_post_execution_changes"
    /\ last.result = Ok
    /\ is_some(output)

\* C26: the gas_used of the BlockExecutionResult that
\* apply_post_execution_changes returns is the cumulative_gas_used of the
\* last receipt, and zero when no transaction was executed.
C26_ResultGasUsedIsLastCumulative ==
    PostExecuted =>
        /\ output.val.receipts = receipts
        /\ output.val.gas_used =
              IF receipts = <<>> THEN 0 ELSE receipts[Len(receipts)].cumulative_gas_used

\* A result over two receipts with different cumulative gas, and a result
\* over no receipt, are both reached.
C26_Witness ==
    /\ PostExecuted
    /\ Len(receipts) = 2
    /\ receipts[1].cumulative_gas_used # receipts[2].cumulative_gas_used
    /\ output.val.gas_used = receipts[2].cumulative_gas_used

\* the request types of the sections of the result, in order
request_types(requests) == [i \in 1..Len(requests) |-> requests[i].type]

\* the section of the type in the requests, if any
HasSection(requests, request_type) ==
    \E i \in 1..Len(requests) : requests[i].type = request_type

SectionData(requests, request_type) ==
    requests[CHOOSE i \in 1..Len(requests) : requests[i].type = request_type].data

\* C27: the Requests of the result are empty when Prague is not active at
\* the block's timestamp; when it is active the sections are in strictly
\* increasing order of request type (the deposits of the receipts first,
\* then what the post-block system calls returned), no section is empty,
\* and a type has a section exactly when it has entries.
C27_RequestsTypeOrderedWithoutEmptySections ==
    PostExecuted =>
        LET requests == output.val.requests
            deposits == deposit_logs(all_logs(receipts))
            env == last.env
        IN  IF ~is_prague_active_at_timestamp(chain_spec, input.timestamp)
            THEN requests = <<>>
            ELSE /\ \A i, j \in 1..Len(requests) : i < j => requests[i].type < requests[j].type
                 /\ \A i \in 1..Len(requests) : requests[i].data # <<>>
                 /\ HasSection(requests, DEPOSIT_REQUEST_TYPE) <=> deposits # <<>>
                 /\ HasSection(requests, DEPOSIT_REQUEST_TYPE) =>
                        SectionData(requests, DEPOSIT_REQUEST_TYPE) = deposits
                 /\ HasSection(requests, WITHDRAWAL_REQUEST_TYPE)
                        <=> env.withdrawal_requests.val # <<>>
                 /\ HasSection(requests, WITHDRAWAL_REQUEST_TYPE) =>
                        SectionData(requests, WITHDRAWAL_REQUEST_TYPE)
                            = env.withdrawal_requests.val
                 /\ HasSection(requests, CONSOLIDATION_REQUEST_TYPE)
                        <=> env.consolidation_requests.val # <<>>
                 /\ HasSection(requests, CONSOLIDATION_REQUEST_TYPE) =>
                        SectionData(requests, CONSOLIDATION_REQUEST_TYPE)
                            = env.consolidation_requests.val
                 /\ \A i \in 1..Len(requests) :
                        requests[i].type \in {DEPOSIT_REQUEST_TYPE, WITHDRAWAL_REQUEST_TYPE,
                                              CONSOLIDATION_REQUEST_TYPE}

\* Prague is active, the receipts hold deposits, the withdrawal-request
\* call returned nothing and the consolidation call returned entries: the
\* result has the deposits first and no section of withdrawal requests.
C27_Witness ==
    /\ PostExecuted
    /\ is_prague_active_at_timestamp(chain_spec, input.timestamp)
    /\ deposit_logs(all_logs(receipts)) # <<>>
    /\ last.env.withdrawal_requests.val = <<>>
    /\ request_types(output.val.requests)
          = <<DEPOSIT_REQUEST_TYPE, CONSOLIDATION_REQUEST_TYPE>>

\* the balance of the address in the state, 0 without an account
balance_of(d, address) ==
    IF address \in DOMAIN d.accounts THEN d.accounts[address].balance ELSE 0

\* the increment of the address, 0 without an entry
increment_of(increments, address) ==
    IF address \in DOMAIN increments THEN increments[address] ELSE 0

DaoAccounts == {DAO_HARDFORK_ACCOUNTS[i] : i \in 1..Len(DAO_HARDFORK_ACCOUNTS)}

AtDaoTransition == transitions_at_block(chain_spec.dao, input.number)

\* C28: at the block where the DAO fork transitions the increment of the
\* fixed beneficiary grows by the sum of the balances the fixed accounts
\* held, no other increment differs from the post-block increments, and
\* the accounts are drained before the increments are applied (a drained
\* account ends with exactly its own increment); at any other block
\* nothing is drained and the increments are the post-block increments.
C28_DaoDrainCreditsBeneficiary ==
    PostExecuted =>
        LET before == last.db_before
            post == last.post_block_increments
            increments == last.balance_increments
        IN  IF AtDaoTransition
            THEN /\ last.drained =
                       [i \in 1..Len(DAO_HARDFORK_ACCOUNTS) |->
                           balance_of(before, DAO_HARDFORK_ACCOUNTS[i])]
                 /\ increment_of(increments, DAO_HARDFORK_BENEFICIARY)
                       = increment_of(post, DAO_HARDFORK_BENEFICIARY) + Sum(last.drained)
                 /\ \A a \in (DOMAIN increments \cup DOMAIN post) \ {DAO_HARDFORK_BENEFICIARY} :
                       /\ a \in DOMAIN increments
                       /\ a \in DOMAIN post
                       /\ increments[a] = post[a]
                 /\ \A a \in DaoAccounts : balance_of(db, a) = increment_of(increments, a)
                 /\ balance_of(db, DAO_HARDFORK_BENEFICIARY)
                       = balance_of(before, DAO_HARDFORK_BENEFICIARY)
                         + increment_of(increments, DAO_HARDFORK_BENEFICIARY)
            ELSE /\ last.drained = <<>>
                 /\ increments = post
                 /\ \A a \in DOMAIN before.accounts \cup DOMAIN increments :
                       balance_of(db, a) = balance_of(before, a) + increment_of(increments, a)

\* The DAO fork block with both accounts funded, the first of them being
\* the block's beneficiary: it ends with the block reward alone.
C28_Witness ==
    /\ PostExecuted
    /\ AtDaoTransition
    /\ \A a \in DaoAccounts : balance_of(last.db_before, a) > 0
    /\ input.beneficiary = DAO_HARDFORK_ACCOUNTS[1]
    /\ balance_of(db, DAO_HARDFORK_ACCOUNTS[1]) = block_reward(BlockReward, Len(input.ommers))
    /\ increment_of(last.balance_increments, DAO_HARDFORK_BENEFICIARY) = 5 + 7

\* the block has exactly one withdrawal (a block has withdrawals only once
\* Shanghai is active)
OneWithdrawal ==
    /\ is_shanghai_active_at_timestamp(chain_spec, input.timestamp)
    /\ is_some(input.withdrawals)
    /\ Len(input.withdrawals.val) = 1

\* C29: every balance increment is applied exactly once.  Every address
\* that is not drained ends with its balance before the call plus its
\* increment; for a block with one withdrawal of a Gwei to an address of
\* balance b (0 without an account) that receives no reward and is not
\* drained, the final balance is b + a * 10^9 wei, and that is the balance
\* reported to the state hook (a withdrawal of 0 leaves nothing to report).
C29_IncrementsAppliedExactlyOnce ==
    PostExecuted =>
        LET before == last.db_before
            increments == last.balance_increments
        IN  /\ \A a \in (DOMAIN before.accounts \cup DOMAIN increments) :
                  ~(AtDaoTransition /\ a \in DaoAccounts) =>
                      balance_of(db, a) = balance_of(before, a) + increment_of(increments, a)
            /\ OneWithdrawal =>
                  LET w == input.withdrawals.val[1]
                      expected == balance_of(before, w.address) + w.amount * GWEI_TO_WEI
                  IN  (/\ increment_of(last.post_block_increments, w.address)
                            = w.amount * GWEI_TO_WEI
                       /\ ~(AtDaoTransition /\ w.address \in DaoAccounts))
                      => /\ balance_of(db, w.address) = expected
                         /\ w.amount > 0 => w.address \in DOMAIN last.balance_state
                         /\ w.address \in DOMAIN last.balance_state =>
                                last.balance_state[w.address].balance = expected

\* The block of test_balance_increment_not_duplicated: one withdrawal of
\* 1 Gwei to an account holding 100 wei, which ends with 100 + 10^9 wei,
\* the balance reported to the hook.
C29_Witness ==
    /\ PostExecuted
    /\ OneWithdrawal
    /\ input.withdrawals.val[1] = Withdrawal(WITHDRAWAL_RECIPIENT, 1)
    /\ balance_of(last.db_before, WITHDRAWAL_RECIPIENT) = 100
    /\ balance_of(db, WITHDRAWAL_RECIPIENT) = 1000000100
    /\ last.balance_state[WITHDRAWAL_RECIPIENT].balance = 1000000100

----------------------------------------------------------------------------
(* Post-execution validation *)

ValidatedPostExecution == result # NoResult /\ result.op = "validate_block_post_execution"

\* the gas used according to the receipts of the result
LastCumulativeGasUsed ==
    IF output.val.receipts = <<>> THEN 0
    ELSE output.val.receipts[Len(output.val.receipts)].cumulative_gas_used

\* C30 as stated: whatever result is handed to validate_block_post_execution,
\* the block is rejected when the gas_used of the result differs from the
\* gas used of the header.
C30_RejectsResultGasUsedMismatch ==
    (ValidatedPostExecution /\ output.val.gas_used # header.gas_used) => result.res # Ok

\* C30 amended: the block is rejected with BlockGasUsed whenever the
\* cumulative gas of the last receipt of the result (0 without receipts)
\* differs from the gas used of the header; the gas_used field of the
\* result is not read, so a mismatch of that field rejects the block when the
\* field agrees with the receipts, as it does in every result of
\* apply_post_execution_changes, and two results that differ in that field
\* alone are validated alike.
C30_RejectsReceiptsGasUsedMismatch ==
    ValidatedPostExecution =>
        /\ LastCumulativeGasUsed # header.gas_used <=> result.res.tag = "BlockGasUsed"
        /\ (output.val.gas_used = LastCumulativeGasUsed
               /\ output.val.gas_used # header.gas_used) => result.res # Ok
        /\ \A g \in PostValidationGasUsed :
              result.res = validate_block_post_execution(chain_spec, header,
                                                         [output.val EXCEPT !.gas_used = g])

\* A result whose gas_used is the cumulative gas of its last receipt and
\* differs from the header's gas used has been rejected.
C30_Witness ==
    /\ ValidatedPostExecution
    /\ Len(output.val.receipts) = 2
    /\ output.val.gas_used = LastCumulativeGasUsed
    /\ header.gas_used = 21000
    /\ result.res.tag = "BlockGasUsed"

----------------------------------------------------------------------------
(* The same block executed twice *)

SecondRun == is_some(first_run)

SecondRunEnded == SecondRun /\ Len(calls) = Len(first_run.val.calls)

----------------------------------------------------------------------------
(* Properties: the total difficulty handed to                              *)
(* validate_header_with_total_difficulty                                   *)

MergeErrors == {"TheMergeDifficultyIsNotZero", "TheMergeNonceIsNotZero", "TheMergeOmmerRootIsNotEmpty"}

\* C38: the result of validate_header_with_total_difficulty does not
\* depend on the total_difficulty argument: every total difficulty gives
\* the result the call gave; the post-transition rules are applied exactly
\* when the chain spec activates Paris at or before the header's block
\* number, and a chain spec that cannot decide the transition by block
\* number gets the pre-transition rule (the timestamp check, no
\* difficulty, nonce or ommers check).
C38_TotalDifficultyNotRead ==
    TotalDifficultyChecked =>
        /\ \A total_difficulty \in TotalDifficulties :
              validate_header_with_total_difficulty(
                  chain_spec, header, total_difficulty, present_timestamp) = result.res
        /\ PostMerge =>
              /\ result.res.tag # "TimestampIsInFuture"
              /\ header.difficulty # 0 => result.res.tag = "TheMergeDifficultyIsNotZero"
        /\ ~PostMerge =>
              /\ result.res.tag \notin MergeErrors
              /\ result.res.tag = "TimestampIsInFuture"
                    <=> header.timestamp > present_timestamp + ALLOWED_FUTURE_BLOCK_TIME_SECONDS

\* A header that breaks the post-transition difficulty rule, validated
\* with a large total difficulty under a chain spec that cannot decide the
\* transition by block number, and accepted.
C38_Witness ==
    /\ TotalDifficultyChecked
    /\ result.total_difficulty > 0
    /\ is_none(chain_spec.paris)
    /\ header.difficulty # 0
    /\ result.res = Ok


----------------------------------------------------------------------------
(* Properties: header validation evaluated twice                           *)

EvaluatedAgain == result # NoResult /\ evaluations # <<>> /\ evaluations[1].op = result.op
PureValidators == {"validate_header", "validate_header_against_parent", "validate_against_parent_gas_limit"}

\* C32 (as stated): two evaluations of validate_header,
\* validate_header_against_parent or validate_header_with_total_difficulty
\* on the same header, parent and chain spec return the same result,
\* regardless of when they are evaluated.
C32_SameResultWheneverEvaluated ==
    EvaluatedAgain => result.res = evaluations[1].res

\* C32 (amended): two evaluations of validate_header or
\* validate_header_against_parent on the same header, parent and chain
\* spec return the same result, regardless of when they are evaluated;
\* two evaluations of validate_header_with_total_difficulty return the
\* same result when the header is post-transition or when the clock reads
\* the same at both, and before the transition they differ only where one
\* of them is TimestampIsInFuture for the clock it read.
C32_SameResultExceptFutureTimestamp ==
    EvaluatedAgain =>
        /\ result.op \in PureValidators => result.res = evaluations[1].res
        /\ TotalDifficultyChecked =>
              /\ (PostMerge \/ evaluations[1].present_timestamp = present_timestamp)
                    => result.res = evaluations[1].res
              /\ result.res # evaluations[1].res =>
                    \/ /\ evaluations[1].res.tag = "TimestampIsInFuture"
                       /\ evaluations[1].res.present_timestamp = evaluations[1].present_timestamp
                    \/ /\ result.res.tag = "TimestampIsInFuture"
                       /\ result.res.present_timestamp = present_timestamp

\* A pre-transition header rejected as being from the future, and accepted
\* when validated again later.
C32_Witness ==
    /\ EvaluatedAgain /\ TotalDifficultyChecked /\ ~PostMerge
    /\ evaluations[1].res.tag = "TimestampIsInFuture"
    /\ evaluations[1].present_timestamp < present_timestamp
    /\ result.res = Ok


----------------------------------------------------------------------------
(* Properties: the receipts held by the strategy                           *)

\* The successful execute_transaction calls of the run so far, in order.
SuccessfulTransactionCalls ==
    SelectSeq(calls, LAMBDA c : c.step = "execute_transaction" /\ c.result.tag = "Ok")

\* C33: after k successful execute_transaction calls the strategy holds
\* exactly k receipts, the i-th receipt carrying the tx_type of the i-th
\* executed transaction and the success flag of its execution, and
\* apply_post_execution_changes returns those receipts in the same order
\* and unchanged.
C33_ReceiptsAlignedWithTransactions ==
    LET executed == SuccessfulTransactionCalls
    IN  /\ Len(receipts) = Len(executed)
        /\ \A i \in 1..Len(executed) :
              /\ receipts[i].tx_type = executed[i].tx.tx_type
              /\ receipts[i].success = executed[i].evm.is_success
        /\ is_some(output) => output.val.receipts = receipts

\* Two transactions of different types, the first reverted and the second
\* successful, executed, and the block finished.
C33_Witness ==
    /\ Len(SuccessfulTransactionCalls) = 2
    /\ SuccessfulTransactionCalls[1].tx.tx_type # SuccessfulTransactionCalls[2].tx.tx_type
    /\ ~SuccessfulTransactionCalls[1].evm.is_success
    /\ SuccessfulTransactionCalls[2].evm.is_success
    /\ is_some(output)
    /\ Len(output.val.receipts) = 2


----------------------------------------------------------------------------
(* Properties: a failing execute_transaction                               *)

TransactionFailed ==
    /\ last.tag = "call"
    /\ last.result.tag \in {"TransactionGasLimitMoreThanAvailableBlockGas", "EvmError"}

\* C34: when execute_transaction returns an error (the gas-limit pre-check
\* or an error from the EVM), no receipt is appended, the running gas_used
\* is what it was before the call, and the state handle holds what it held
\* before the call (no state diff of the transaction is committed).
C34_FailedTransactionLeavesNoTrace ==
    TransactionFailed =>
        /\ receipts = last.receipts_before
        /\ gas_used = last.gas_used_before
        /\ db = last.db_before

\* After a committed transaction, the transaction of the override hash
\* fails in the EVM: the receipt, the gas and the state of the first
\* transaction are all that the strategy holds.
C34_Witness ==
    /\ TransactionFailed
    /\ last.result.tag = "EvmError"
    /\ last.tx.hash = HOTFIX_TX_HASH
    /\ Len(receipts) = 1
    /\ gas_used = receipts[1].cumulative_gas_used
    /\ gas_used > 0
    /\ TX_CALLER \in DOMAIN db.accounts


----------------------------------------------------------------------------
(* Properties: the order of the steps of apply_pre_execution_changes       *)

PreExecutionSteps ==
    <<"set_state_clear_flag", "apply_blockhashes_contract_call",
      "apply_beacon_root_contract_call", "deploy_corewriter_contract">>
BeaconRootErrors ==
    {"MissingParentBeaconBlockRoot", "CancunGenesisParentBeaconBlockRootNotZero",
     "BeaconRootContractCall"}
PreExecutionCalled == last.tag = "apply_pre_execution_changes"
HistoryWritten ==
    /\ is_some(chain_spec.prague) /\ input.timestamp >= chain_spec.prague.val
    /\ input.number # 0
    /\ HISTORY_STORAGE_ADDRESS \in DOMAIN last.db_before.accounts
    /\ last.db_before.accounts[HISTORY_STORAGE_ADDRESS].code # ""

\* C35: apply_pre_execution_changes runs its steps in the fixed order
\* state-clear flag, block-hash history call, beacon-root call, one-time
\* deployment: the flag is set in every case, to true exactly when
\* Spurious Dragon is active at the block number; the steps run are a
\* prefix of the four that ends at the step whose error is returned; a
\* block that fails the block-hash call has no storage written and no
\* deployment, and a block that fails the beacon-root step has the parent
\* hash already stored, no beacon-root slot written and no deployment.
C35_PreExecutionStepsInOrder ==
    PreExecutionCalled =>
        /\ db.state_clear_flag
              = (is_some(chain_spec.spurious_dragon) /\ input.number >= chain_spec.spurious_dragon.val)
        /\ Len(last.steps) \in 2..4
        /\ last.steps = SubSeq(PreExecutionSteps, 1, Len(last.steps))
        /\ Len(last.steps) < 4 <=> last.result.tag \in BeaconRootErrors \cup {"BlockHashContractCall"}
        /\ last.result.tag = "BlockHashContractCall" =>
              /\ Len(last.steps) = 2
              /\ db.storage = last.db_before.storage
              /\ db.accounts = last.db_before.accounts
        /\ last.result.tag \in BeaconRootErrors =>
              /\ Len(last.steps) = 3
              /\ db.accounts = last.db_before.accounts
              /\ \A w \in db.storage : w[1] # BEACON_ROOTS_ADDRESS
              /\ HistoryWritten =>
                    <<HISTORY_STORAGE_ADDRESS, (input.number - 1) % HISTORY_SERVE_WINDOW,
                      input.parent_hash>> \in db.storage
        /\ (last.result = Ok /\ input.number = COREWRITER_ENABLED_BLOCK_NUMBER) =>
              db.accounts[COREWRITER_CONTRACT_ADDRESS].code = COREWRITER_BYTECODE

\* The block of the one-time deployment fails the beacon-root call after
\* the parent hash was stored: the deployment is not made.
C35_Witness ==
    /\ PreExecutionCalled
    /\ input.number = COREWRITER_ENABLED_BLOCK_NUMBER
    /\ last.env.load_account_ok
    /\ last.result.tag = "BeaconRootContractCall"
    /\ HistoryWritten
    /\ <<HISTORY_STORAGE_ADDRESS, (input.number - 1) % HISTORY_SERVE_WINDOW,
          input.parent_hash>> \in db.storage
    /\ COREWRITER_CONTRACT_ADDRESS \notin DOMAIN db.accounts


----------------------------------------------------------------------------
(* Properties: the running gas_used and the block gas limit                *)

\* C36: in every state reachable by any sequence of execute_transaction
\* calls (impersonated transactions and the hash-overridden transaction
\* included) the running gas_used is at most the block gas limit, so the
\* unsigned subtraction block_gas_limit - gas_used at the start of
\* execute_transaction never underflows and no call panics on it.
C36_GasUsedWithinBlockGasLimit ==
    /\ gas_used <= input.gas_limit
    /\ ~available_gas_underflows(input.gas_limit, gas_used)
    /\ pc # "panicked"

\* C37: an impersonated transaction whose declared gas limit exceeds
\* block_gas_limit - gas_used is refused with
\* TransactionGasLimitMoreThanAvailableBlockGas, and an impersonated
\* transaction that is executed does not reduce the available gas (the
\* running gas_used does not grow).
C37_ImpersonatedPreCheckedAndUncounted ==
    (Called /\ IsImpersonated(last.tx)) =>
        /\ last.tx.gas_limit > input.gas_limit - last.gas_used_before =>
              last.result.tag = "TransactionGasLimitMoreThanAvailableBlockGas"
        /\ last.result.tag = "Ok" => gas_used <= last.gas_used_before


----------------------------------------------------------------------------
(* Properties: the order of the checks of validate_header                  *)

StandaloneValidated == result.op = "validate_header"
GasRuleBroken == header.gas_used > header.gas_limit
BaseFeeRuleBroken ==
    is_london_active_at_block(chain_spec, header.number) /\ is_none(header.base_fee_per_gas)
WithdrawalsRuleBroken ==
    is_shanghai_active_at_timestamp(chain_spec, header.timestamp) # is_some(header.withdrawals_root)
BlobRuleBroken ==
    \/ CancunActive # is_some(header.blob_gas_used)
    \/ CancunActive # is_some(header.excess_blob_gas)
    \/ CancunActive # is_some(header.parent_beacon_block_root)
RequestsRuleBroken ==
    is_prague_active_at_timestamp(chain_spec, header.timestamp) # is_some(header.requests_hash)
BlobErrors ==
    {"BlobGasUsedMissing", "ExcessBlobGasMissing", "ParentBeaconBlockRootMissing",
     "BlobGasUsedUnexpected", "ExcessBlobGasUnexpected", "ParentBeaconBlockRootUnexpected"}

\* C39: validate_header is fail-fast in the order gas check, base-fee
\* check, withdrawals root, blob fields (with the blob fork inactive: blob
\* gas used, then excess blob gas, then parent beacon block root),
\* requests hash: a header is rejected with the error of the earliest rule
\* it breaks, whatever later rules it breaks too, and accepted when it
\* breaks none.
C39_EarliestViolatedCheckReported ==
    StandaloneValidated =>
        IF GasRuleBroken THEN result.res.tag = "HeaderGasUsedExceedsGasLimit"
        ELSE IF BaseFeeRuleBroken THEN result.res.tag = "BaseFeeMissing"
        ELSE IF WithdrawalsRuleBroken
        THEN result.res.tag \in {"WithdrawalsRootMissing", "WithdrawalsRootUnexpected"}
        ELSE IF BlobRuleBroken
        THEN /\ result.res.tag \in BlobErrors
             /\ ~CancunActive =>
                   result.res.tag =
                      IF is_some(header.blob_gas_used) THEN "BlobGasUsedUnexpected"
                      ELSE IF is_some(header.excess_blob_gas) THEN "ExcessBlobGasUnexpected"
                      ELSE "ParentBeaconBlockRootUnexpected"
        ELSE IF RequestsRuleBroken
        THEN result.res.tag \in {"RequestsHashMissing", "RequestsHashUnexpected"}
        ELSE result.res = Ok

\* A header that breaks the withdrawals-root rule, all three blob-field
\* rules of an inactive blob fork and the requests-hash rule, rejected for
\* its withdrawals root.
C39_Witness ==
    /\ StandaloneValidated
    /\ ~GasRuleBroken /\ ~BaseFeeRuleBroken
    /\ WithdrawalsRuleBroken /\ RequestsRuleBroken
    /\ ~CancunActive
    /\ is_some(header.blob_gas_used) /\ is_some(header.excess_blob_gas)
    /\ is_some(header.parent_beacon_block_root)
    /\ result.res.tag \in {"WithdrawalsRootMissing", "WithdrawalsRootUnexpected"}


----------------------------------------------------------------------------
(* Properties: the transactions listed by the RPC block conversions        *)

Converted(kind) == response[kind].tag = "Ok"
\* the hashes a conversion lists, in order
ListedHashes(kind) ==
    IF kind = "Hashes" THEN response[kind].transactions
    ELSE [i \in 1..Len(response[kind].transactions) |-> response[kind].transactions[i].hash.val]
AllHashes == [i \in 1..Len(block) |-> block[i].hash]
NonZeroPriceTxs == SelectSeq(block, LAMBDA tx : tx.gas_price # Some(0))
NonZeroPriceHashes == [i \in 1..Len(NonZeroPriceTxs) |-> NonZeroPriceTxs[i].hash]

\* C40 (as stated): with HL_NODE_COMPLIANT set, from_block_with_tx_hashes
\* and from_block_full list exactly the transactions whose gas price is
\* not Some(0), in block order, and both list the same sequence of hashes;
\* with the variable unset both list every transaction of the block.
C40_SetVariableOmitsZeroGasPrice ==
    /\ \A kind \in {"Hashes", "Full"} :
          Converted(kind) =>
              ListedHashes(kind) = IF env_var.set THEN NonZeroPriceHashes ELSE AllHashes
    /\ (Converted("Hashes") /\ Converted("Full")) => ListedHashes("Hashes") = ListedHashes("Full")

\* C40 (amended): with HL_NODE_COMPLIANT set to a value that is valid
\* Unicode (the empty value included), from_block_with_tx_hashes and
\* from_block_full, when it returns a block, list exactly the transactions
\* whose gas price is not Some(0), in block order, and both list the same
\* sequence of hashes; with the variable unset, or set to a value that is
\* not valid Unicode, both list every transaction of the block.
C40_UnicodeVariableOmitsZeroGasPrice ==
    /\ \A kind \in {"Hashes", "Full"} :
          Converted(kind) =>
              ListedHashes(kind) =
                  IF env_var \in {[set |-> TRUE, unicode |-> TRUE, value |-> v] : v \in {"", "true"}}
                  THEN NonZeroPriceHashes ELSE AllHashes
    /\ (Converted("Hashes") /\ Converted("Full")) => ListedHashes("Hashes") = ListedHashes("Full")
    /\ response["Hashes"].tag # "Err"

\* The variable is set to the empty value and a block whose second of
\* three transactions has gas price Some(0) is converted both ways: both
\* list the first and the third.
C40_Witness ==
    /\ env_var = [set |-> TRUE, unicode |-> TRUE, value |-> ""]
    /\ Len(block) = 3
    /\ block[1].gas_price = None /\ block[2].gas_price = Some(0) /\ block[3].gas_price = Some(1)
    /\ block[1].hash # block[3].hash
    /\ Converted("Hashes") /\ Converted("Full")
    /\ ListedHashes("Hashes") = <<block[1].hash, block[3].hash>>
    /\ ListedHashes("Full") = <<block[1].hash, block[3].hash>>

====
